---- MODULE Spec2Model ----
(***************************************************************************)
(* A model of the concrnt node client: the request and caching engine of   *)
(* src/src/api.ts (Api), the key-value store and the realtime socket of    *)
(* src/src/cache/main.ts (InMemoryKVS, Socket) and the credential          *)
(* providers of src/src/auth/main.ts.                                      *)
(*                                                                         *)
(* JavaScript runs one task at a time; a function runs without             *)
(* interruption up to its next await.  Every action below is one such      *)
(* uninterrupted stretch of code.  The key-value store is InMemoryKVS: its *)
(* get, set and invalidate touch the Map at the moment they are called and *)
(* the caller's await only postpones the continuation to a microtask.      *)
(* Microtasks run before the event loop takes the next timer or network    *)
(* event, so the clock and the network act only when no continuation of    *)
(* that kind is pending; new calls may start at any point.                 *)
(***************************************************************************)
EXTENDS Integers, Sequences, FiniteSets, TLC

\* ------------------------------------------------------------ bounds ----
\* The clock advances in steps of TickMs up to MaxNow (milliseconds).
MaxNow == 750
TickMs == 250
\* Response bodies carry the versions 1..MaxVal of a resource ({v:1}, {v:2}).
MaxVal == 2

\* ----------------------------------------------------- program constants
defaultCacheTTL == 2147483647
negativeCacheTTL == 300
Null == 0

\* TTL values a caller passes in opts.TTL (or leaves out: defaultCacheTTL).
TTLs == {500, defaultCacheTTL}

defaultHost == "a.example"
Hosts == {"a.example"}

MessageKey(id) == <<"message", id>>
EntityKey(id) == <<"entity", id>>
OfflineKey(host) == <<"offline", host>>

MessageKeys == {MessageKey("m1")}
ProfileKey(id) == <<"profile", id>>
CacheKeys == MessageKeys \cup {EntityKey("e1"), ProfileKey("p1")}
Keys == CacheKeys \cup {OfflineKey(h) : h \in Hosts}

Values == 1..MaxVal

Calls == {1, 2}
NoCall == 0

Kinds == {"cache", "json", "blob"}
CacheOpts == {"default", "force-cache", "no-cache", "best-effort", "negative-only"}
Auths == {"auth", "no-auth"}

VARIABLES
    now,               \* Date.now()
    cache,             \* InMemoryKVS.store: key -> entry
    inFlightRequests,  \* Api.inFlightRequests: cache key -> request (NoCall: no entry)
    calls,             \* the running fetchWithCache / fetchWithCredential(Blob) calls
    reqs,              \* the network request each call issued and its handlers
    probe,             \* a direct isHostOnline call and its answer
    provider,          \* Api.authProvider: its kind and keys
    passport,          \* AuthProvider.passport
    tokens,            \* AuthProvider.tokens: remote -> JWT
    authCalls,         \* the running getHeaders calls
    commits,           \* the running commit calls
    posted,            \* the last body commit handed to fetch
    subscriptions,     \* Socket.subscriptions: timeline -> callbacks
    conns,             \* readyState of every WebSocket connect() created; Socket.ws is the last
    sent,              \* what went out on Socket.ws: its first frame, its last listen / unlisten frame
    failcount,         \* Socket.failcount
    reconnecting,      \* Socket.reconnecting
    reconnectTimer,    \* the setTimeout of reconnect() is pending
    reconnectDelay,    \* the delay reconnect() gave to setTimeout, 0 when no timer is set
    kvs,               \* the KVS the Api was built with: InMemoryKVS or IndexedDBKVS
    frames,            \* number of frames the server has sent on the socket
    handlers,          \* onmessage handlers suspended at `await this.api.cache.set`
    kvsOps,            \* invalidate calls IndexedDBKVS has not carried out yet
    lastEvent,         \* the frame onmessage handled last, and whether message:m1 was cached then
    delivered,         \* the events handed to distribute, in call order
    upsert,            \* an upsertProfile call: where it is, and the reads around it
    write,             \* a createAssociation / createMessage call: where it is, how it ended
    resolving,         \* a resolveTimelineHost call: its argument, where it is, its outcome
    response,          \* the response the network delivered last, and to which request
    failedSince,       \* requests that failed on an unreachable host since the last success
    lastCall,          \* the latest listen / unlisten call and what it did
    lastBeat,          \* the latest heartbeat tick and what it did
    waiting,           \* a waitOpen call: its promise, its counter, its interval timer
    reader             \* a TimelineReader: body, streams, its requests in flight

fetchVars == <<inFlightRequests, calls, reqs>>
liveVars == <<probe>>
authVars == <<provider, passport, tokens, authCalls>>
commitVars == <<commits, posted>>
socketVars == <<subscriptions, conns, sent, failcount, reconnecting, reconnectTimer, reconnectDelay>>
eventVars == <<kvs, frames, handlers, kvsOps, lastEvent, delivered>>
writeVars == <<upsert, write>>
resolveVars == <<resolving>>
traceVars == <<response, failedSince>>
callVars == <<lastCall, lastBeat, waiting, reader>>
vars == <<now, cache, fetchVars, liveVars, authVars, commitVars, socketVars, eventVars, writeVars, resolveVars, traceVars, callVars>>

\* ------------------------------------------------------------- KVS ------
NoEntry == [present |-> FALSE, data |-> 0, timestamp |-> 0]

KvsSet(store, key, value, t) ==
    [store EXCEPT ![key] = [present |-> TRUE, data |-> value, timestamp |-> t]]

KvsGet(store, key) == store[key]

KvsInvalidate(store, key) == [store EXCEPT ![key] = NoEntry]

\* ------------------------------------------------------- liveness -------
\* A variant with the exponent capped at 13.
BackoffCappedAt13(age, failCount) ==
    LET n == IF failCount < 13 THEN failCount ELSE 13
    IN  IF n < 2
        THEN age < 125 * (3 ^ n) * (2 ^ (2 - n))
        ELSE age <= ((125 * (3 ^ n)) - 1) \div (2 ^ (n - 2))

\* A variant with the exponent capped at 14.
BackoffCappedAt14(age, failCount) ==
    LET n == IF failCount < 14 THEN failCount ELSE 14
    IN  IF n < 2
        THEN age < 125 * (3 ^ n) * (2 ^ (2 - n))
        ELSE age <= ((125 * (3 ^ n)) - 1) \div (2 ^ (n - 2))

\* age < 500 * Math.pow(1.5, Math.min(entry.data, 15)) in integer arithmetic:
\* 500 * 1.5^n = 125 * 3^n / 2^(n-2), and the double the code computes is exact.
BackoffWithin(age, failCount) ==
    LET n == IF failCount < 15 THEN failCount ELSE 15
    IN  IF n < 2
        THEN age < 125 * (3 ^ n) * (2 ^ (2 - n))
        ELSE age <= ((125 * (3 ^ n)) - 1) \div (2 ^ (n - 2))

\* A variant without the liveness gate.
HostAlwaysOnline(entry, t) == TRUE

\* isHostOnline, on the entry its cache.get returned, at time t.
IsHostOnline(entry, t) ==
    ~(entry.present /\ BackoffWithin(t - entry.timestamp, entry.data))

MarkHostOnline(store, host) == KvsInvalidate(store, OfflineKey(host))

\* markHostOffline after its await: failCount was read before the await.
MarkHostOfflineSet(store, host, failCount, t) ==
    KvsSet(store, OfflineKey(host), failCount + 1, t)

MarkHostOfflineGet(store, host) ==
    LET e == KvsGet(store, OfflineKey(host))
    IN  IF e.present THEN e.data ELSE 0

\* ------------------------------------------------------- responses ------
\* What the network answers: an HTTP status (0: fetch rejected, with the
\* cause code), and for a 2xx the ApiResponse body {status, content}.
OkStatuses == {200}
ErrStatuses == {403, 404, 500, 502, 503, 504}
CauseCodes == {"ENOTFOUND", "ECONNREFUSED", "ABORT"}

Responses ==
    {[status |-> s, code |-> "", app |-> a, content |-> v] :
        s \in OkStatuses, a \in {"ok", "error"}, v \in Values}
    \cup {[status |-> s, code |-> "", app |-> "ok", content |-> Null] : s \in ErrStatuses}
    \cup {[status |-> 0, code |-> k, app |-> "ok", content |-> Null] : k \in CauseCodes}

ResOk(status) == status >= 200 /\ status <= 299

\* ----------------------------------------------------------- calls ------
\* A call: its arguments, its position (pc), what its awaits returned
\* (entry, live, cached), what it returned to its caller (res, val), whether
\* it returned the retained value before the network (swr), the request it
\* awaits (waitOn), and the place its last stretch of code ended at (via):
\* the cache lookup, the liveness gate, or a settled request.
IdleCall ==
    [kind |-> "cache", key |-> EntityKey("e1"), host |-> defaultHost,
     opt |-> "default", ttl |-> defaultCacheTTL, auth |-> "auth",
     pc |-> "idle", entry |-> NoEntry, live |-> NoEntry, cached |-> Null,
     res |-> "none", val |-> Null, waitOn |-> NoCall,
     swr |-> FALSE, via |-> "none", negHit |-> FALSE]

NoReq == [pc |-> "none", outcome |-> "none", val |-> Null, failCount |-> 0,
          app |-> "ok", content |-> Null]

\* A call slot is free once its call has ended.
CanStart(c) == calls[c].pc \in {"idle", "done"}

\* const fetchHost = host || this.defaultHost
FetchHost(host) == IF host = "" THEN defaultHost ELSE host

\* fetchNetwork up to its first await: isHostOnline has called cache.get.
\* From here on the code reads of opts.cache only whether it is
\* 'negative-only' (api.ts 357), and no longer reads opts.TTL or `cached`;
\* the call keeps 'negative-only' and 'no-cache', the rest reads as default.
EnterFetchNetwork(call) ==
    [call EXCEPT !.pc = "isHostOnline",
                 !.live = KvsGet(cache, OfflineKey(call.host)),
                 !.opt = IF call.opt \in {"negative-only", "no-cache"}
                        THEN call.opt ELSE "default",
                 !.ttl = defaultCacheTTL, !.cached = Null]

\* fetchWithCache up to its first await (api.ts 278-280).
FetchWithCache(c, key, host, opt, ttl, auth) ==
    /\ CanStart(c)
    /\ LET call == [IdleCall EXCEPT !.kind = "cache", !.key = key,
                        !.host = FetchHost(host), !.opt = opt, !.ttl = ttl,
                        !.auth = auth]
       IN  calls' = [calls EXCEPT ![c] =
                IF opt # "no-cache"
                THEN [call EXCEPT !.pc = "cacheGet", !.entry = KvsGet(cache, key)]
                ELSE EnterFetchNetwork(call)]
    /\ reqs' = [reqs EXCEPT ![c] = NoReq]
    /\ UNCHANGED <<now, cache, inFlightRequests>>

\* getMessage: always cache 'negative-only' (api.ts 436-446).
GetMessage(c, id, host, ttl) ==
    FetchWithCache(c, MessageKey(id), host, "negative-only", ttl, "auth")

\* fetchWithCredential / fetchWithCredentialBlob up to the first await.
FetchWithCredential(c, host) ==
    /\ CanStart(c)
    /\ calls' = [calls EXCEPT ![c] = EnterFetchNetwork(
                    [IdleCall EXCEPT !.kind = "json", !.host = FetchHost(host),
                                     !.opt = "no-cache"])]
    /\ reqs' = [reqs EXCEPT ![c] = NoReq]
    /\ UNCHANGED <<now, cache, inFlightRequests>>

FetchWithCredentialBlob(c, host) ==
    /\ CanStart(c)
    /\ calls' = [calls EXCEPT ![c] = EnterFetchNetwork(
                    [IdleCall EXCEPT !.kind = "blob", !.host = FetchHost(host),
                                     !.opt = "no-cache"])]
    /\ reqs' = [reqs EXCEPT ![c] = NoReq]
    /\ UNCHANGED <<now, cache, inFlightRequests>>

\* The TTL that applies to an entry (api.ts 294).
ApplicableTTL(entry, ttl) == IF entry.data # Null THEN ttl ELSE negativeCacheTTL

\* A variant that serves an entry of any age.
ServesCachedAnyAge(entry, opt, ttl, t) ==
    /\ entry.present
    /\ ~(opt = "best-effort" /\ entry.data = Null)

\* A variant that serves a negative entry to a 'best-effort' call too.
ServesCachedNegative(entry, opt, ttl, t) ==
    /\ entry.present
    /\ (t - entry.timestamp) < ApplicableTTL(entry, ttl)

\* the call is 'best-effort' and cache.get gave it a negative entry younger
\* than negativeCacheTTL (kept in the call as negHit)
BestEffortOnNegative(entry, opt, t) ==
    /\ opt = "best-effort"
    /\ entry.present /\ entry.data = Null
    /\ (t - entry.timestamp) < negativeCacheTTL

\* api.ts 294-295: is the entry served as the final answer?
ServesCached(entry, opt, ttl, t) ==
    /\ entry.present
    /\ (t - entry.timestamp) < ApplicableTTL(entry, ttl)
    /\ ~(opt = "best-effort" /\ entry.data = Null)

\* A call that has ended: what it returned to its caller is kept.
Ended(call, via) ==
    [IdleCall EXCEPT !.pc = "done", !.kind = call.kind, !.res = call.res,
                     !.val = call.val, !.swr = call.swr, !.via = via,
                     !.negHit = call.negHit]

\* A variant that returns the retained value and launches nothing.
ReturnCachedOnly(call) ==
    Ended([call EXCEPT !.res = "ok", !.val = call.cached, !.swr = TRUE], "cache")

\* api.ts 389-392: `if (cached) { fetchNetwork(); return cached }`: the
\* call returns the retained value and fetchNetwork goes on in the background.
SwrBranch(call) ==
    EnterFetchNetwork([call EXCEPT !.res = "ok", !.val = call.cached, !.swr = TRUE])

\* fetchWithCache after `await this.cache.get` (api.ts 281-299, 389-394).
AfterCacheGet(c) ==
    LET call == calls[c]
        e == call.entry
        cached == IF e.present THEN e.data ELSE Null
        withCached == [call EXCEPT !.cached = cached, !.entry = NoEntry,
                                   !.ttl = defaultCacheTTL,
                                   !.negHit = BestEffortOnNegative(e, call.opt, now)]
    IN  /\ call.pc = "cacheGet"
        /\ calls' = [calls EXCEPT ![c] =
              IF ServesCached(e, call.opt, call.ttl, now)
              THEN Ended([withCached EXCEPT
                        !.res = IF e.data # Null THEN "ok" ELSE "null",
                        !.val = e.data], "cache")
              ELSE IF call.opt = "force-cache"
              THEN Ended([withCached EXCEPT !.res = "CacheMiss"], "cache")
              ELSE IF cached # Null
              THEN SwrBranch(withCached)
              ELSE EnterFetchNetwork(withCached)]
        /\ UNCHANGED <<now, cache, inFlightRequests, reqs>>

\* fetchWithTimeout(...) is called and, for fetchWithCache, the promise is
\* registered (api.ts 330, 384-386).
IssueRequest(c, call) ==
    /\ calls' = [calls EXCEPT ![c] =
            [call EXCEPT !.pc = "await", !.waitOn = c, !.auth = "auth"]]
    /\ reqs' = [reqs EXCEPT ![c] = [NoReq EXCEPT !.pc = "pending"]]
    /\ inFlightRequests' =
            IF call.kind = "cache"
            THEN [inFlightRequests EXCEPT ![call.key] = c]
            ELSE inFlightRequests

\* A call that fails: an error for the caller, or, after the swr return,
\* a rejected background promise nobody awaits.
Fail(call, err) ==
    IF call.swr THEN Ended(call, "gate")
    ELSE Ended([call EXCEPT !.res = err], "gate")

\* fetchNetwork after `await this.isHostOnline(fetchHost)`
\* (api.ts 305-320; 207-217; 133-143).
AfterIsHostOnline(c) ==
    LET call == calls[c]
        online == IsHostOnline(call.live, now)
        gated == [call EXCEPT !.live = NoEntry]
    IN  /\ call.pc = "isHostOnline"
        /\ IF ~online
           THEN /\ calls' = [calls EXCEPT ![c] = Fail(gated, "DomainOffline")]
                /\ UNCHANGED <<inFlightRequests, reqs>>
           ELSE IF call.kind = "cache" /\ inFlightRequests[call.key] # NoCall
           THEN /\ calls' = [calls EXCEPT ![c] =
                        [gated EXCEPT !.pc = "await", !.auth = "auth",
                                      !.waitOn = inFlightRequests[call.key]]]
                /\ UNCHANGED <<inFlightRequests, reqs>>
           ELSE IF call.kind = "cache" /\ call.auth = "no-auth"
           THEN IssueRequest(c, gated)
           ELSE /\ calls' = [calls EXCEPT ![c] = [gated EXCEPT !.pc = "getHeaders"]]
                /\ UNCHANGED <<inFlightRequests, reqs>>
        /\ UNCHANGED <<now, cache>>

\* After `await this.authProvider.getHeaders(fetchHost)`: whether it
\* returned headers or threw (the error is only logged), the request is sent.
AfterGetHeaders(c) ==
    /\ calls[c].pc = "getHeaders"
    /\ IssueRequest(c, calls[c])
    /\ UNCHANGED <<now, cache>>

\* ------------------------------------------------- response handling ----
\* A variant that takes a refused connection for an ordinary error.
MarksOfflineUnlessRefused(res) ==
    \/ res.status \in {502, 503, 504}
    \/ (res.status = 0 /\ res.code = "ENOTFOUND")

\* A variant that takes every rejected fetch, a timeout abort too, for an
\* unreachable host.
MarksOfflineOnAnyFailure(res) ==
    \/ res.status \in {502, 503, 504}
    \/ res.status = 0

\* 502/503/504 and ENOTFOUND/ECONNREFUSED: `await this.markHostOffline(..)`.
MarksOffline(res) ==
    \/ res.status \in {502, 503, 504}
    \/ (res.status = 0 /\ res.code \in {"ENOTFOUND", "ECONNREFUSED"})

\* The promise of request r settles with an outcome: every call awaiting it
\* (the one that issued it, and the ones that joined it) resumes with it.
ResumeAwaiting(r, outcome, val) ==
    [d \in Calls |->
        IF calls[d].pc = "await" /\ calls[d].waitOn = r
        THEN IF calls[d].swr THEN Ended(calls[d], "request")
             ELSE Ended([calls[d] EXCEPT !.res = outcome, !.val = val], "request")
        ELSE calls[d]]

\* The handlers of request c end with an outcome.  fetchWithCache still has
\* its finally to run; the credentialed calls return or throw at once.
Finish(c, outcome, val) ==
    IF calls[c].kind = "cache"
    THEN /\ reqs' = [reqs EXCEPT ![c] = [NoReq EXCEPT !.pc = "finally",
                        !.outcome = outcome, !.val = val]]
         /\ calls' = calls
    ELSE /\ reqs' = [reqs EXCEPT ![c] = NoReq]
         /\ calls' = ResumeAwaiting(c, outcome, val)

\* No continuation is waiting in the microtask queue.  The promises of
\* InMemoryKVS resolve at once; a call waiting for IndexedDBKVS waits for a
\* later task.
MicrotasksDone ==
    \A c \in Calls :
        /\ kvs = "InMemoryKVS" =>
                /\ calls[c].pc \notin {"cacheGet", "isHostOnline"}
                /\ reqs[c].pc # "markHostOffline"
        /\ reqs[c].pc # "finally"

\* A variant that leaves the entry of the key as it is on 404.
OnNotFoundKeepsEntry(store, key, t) == store

\* `if (res.status === 404) { this.cache.set(cacheKey, null); return null }`
OnNotFound(store, key, t) == KvsSet(store, key, Null, t)

\* The network answers request c: the .then / .catch handlers up to their
\* first effectful await (api.ts 330-349, 365-376; 226-244, 248-261).
Respond(c, res) ==
    LET call == calls[c]
        req == reqs[c]
    IN  /\ req.pc = "pending"
        /\ MicrotasksDone
        /\ IF MarksOffline(res)
           THEN /\ reqs' = [reqs EXCEPT ![c] = [req EXCEPT !.pc = "markHostOffline",
                        !.failCount = MarkHostOfflineGet(cache, call.host)]]
                /\ UNCHANGED <<cache, calls>>
           ELSE IF res.status = 0
           THEN Finish(c, "Error", Null) /\ cache' = cache
           ELSE IF res.status = 403
           THEN Finish(c, "Permission", Null) /\ cache' = cache
           ELSE IF res.status = 404
           THEN IF call.kind = "cache"
                THEN /\ cache' = OnNotFound(cache, call.key, now)
                     /\ Finish(c, "null", Null)
                ELSE Finish(c, "NotFound", Null) /\ cache' = cache
           ELSE IF ~ResOk(res.status)
           THEN Finish(c, "Error", Null) /\ cache' = cache
           ELSE /\ cache' = MarkHostOnline(cache, call.host)
                /\ reqs' = [reqs EXCEPT ![c] = [req EXCEPT !.pc = "json",
                        !.app = res.app, !.content = res.content]]
                /\ calls' = calls
        /\ UNCHANGED <<now, inFlightRequests>>

\* Respond, with a record of the response, of the liveness entry it found,
\* and of the failures in a row.
NoResponse == [call |-> NoCall, status |-> 0, code |-> "", found |-> NoEntry]

RespondTo(c, res) ==
    /\ Respond(c, res)
    /\ response' = [call |-> c, status |-> res.status, code |-> res.code,
                    found |-> cache[OfflineKey(calls[c].host)]]
    /\ failedSince' = IF MarksOffline(res) THEN failedSince + 1
                      ELSE IF ResOk(res.status) THEN 0
                      ELSE failedSince

InitTrace == response = NoResponse /\ failedSince = 0

\* markHostOffline after its `await this.cache.get`: the set, then the
\* DomainOfflineError (api.ts 116-120, 337-338, 372-373).
AfterMarkHostOffline(c) ==
    /\ reqs[c].pc = "markHostOffline"
    /\ cache' = MarkHostOfflineSet(cache, calls[c].host, reqs[c].failCount, now)
    /\ Finish(c, "DomainOffline", Null)
    /\ UNCHANGED <<now, inFlightRequests>>

\* A variant that writes under every cache option.
WritesAlways(opt) == TRUE

\* A variant in which a call that skipped the cache does not write either.
WritesUnlessNoCache(opt) == opt \notin {"negative-only", "no-cache"}

\* api.ts 357: which cache options write a successful result.
WritesOnSuccess(opt) == opt # "negative-only"

\* After `await res.json()` (api.ts 351-363; 246; 172).
AfterJson(c) ==
    LET call == calls[c]
        req == reqs[c]
    IN  /\ req.pc = "json"
        /\ IF call.kind # "cache"
           THEN Finish(c, "ok", req.content) /\ cache' = cache
           ELSE IF req.app # "ok"
           THEN Finish(c, "Error", Null) /\ cache' = cache
           ELSE /\ Finish(c, "ok", req.content)
                /\ cache' = IF WritesOnSuccess(call.opt)
                            THEN KvsSet(cache, call.key, req.content, now)
                            ELSE cache
        /\ UNCHANGED <<now, inFlightRequests>>

\* .finally(() => this.inFlightRequests.delete(cacheKey)) (api.ts 378-382),
\* after which the promise settles.
Finally(c) ==
    /\ reqs[c].pc = "finally"
    /\ inFlightRequests' = [inFlightRequests EXCEPT ![calls[c].key] = NoCall]
    /\ reqs' = [reqs EXCEPT ![c] = NoReq]
    /\ calls' = ResumeAwaiting(c, reqs[c].outcome, reqs[c].val)
    /\ UNCHANGED <<now, cache>>

\* Socket.onmessage for a message event with a resource:
\* `await this.api.cache.set('message:' + id, message)` (cache/main.ts 139-146).
OnMessageUpsert(id, v) ==
    /\ MicrotasksDone
    /\ cache' = KvsSet(cache, MessageKey(id), v, now)
    /\ UNCHANGED <<now, inFlightRequests, calls, reqs>>

Tick ==
    /\ MicrotasksDone
    /\ now + TickMs <= MaxNow
    /\ now' = now + TickMs
    /\ UNCHANGED <<cache, inFlightRequests, calls, reqs>>

\* ---------------------------------------------------- auth provider -----
Absent == "undefined"

MaxHeaderCalls == 3
HeaderCalls == 1..MaxHeaderCalls
AuthDomains == {"a.example", "b.example"}
TokenDomains == AuthDomains \cup {""}
PassportValues == {"passport1", "passport2"}

\* MasterKeyAuthProvider(privatekey, host), SubKeyAuthProvider(subkey), GuestAuthProvider()
Providers ==
    { [kind |-> "master", ccid |-> "con1", ckid |-> Absent, host |-> "a.example"],
      [kind |-> "sub", ccid |-> "con1", ckid |-> "cck1", host |-> "a.example"],
      [kind |-> "guest", ccid |-> Absent, ckid |-> Absent, host |-> Absent] }

NoToken == [aud |-> Absent, iss |-> Absent, sub |-> Absent, keyID |-> Absent,
            valid |-> FALSE]

\* generateApiToken(remote): IssueJWT(privatekey, {aud, iss: ccid, sub: 'concrnt'}),
\* of the master-key and of the sub-key provider alike; IssueJWT is given no
\* third argument, so no keyID
GenerateApiToken(p, remote) ==
    [aud |-> remote, iss |-> p.ccid, sub |-> "concrnt", keyID |-> Absent,
     valid |-> TRUE]

\* crypto.CheckJwtIsValid: the token is well formed and not expired
CheckJwtIsValid(token) == token.valid

\* `let credential = this.tokens[domain]; if (!credential || !CheckJwtIsValid(credential))
\*  credential = this.generateApiToken(domain)`, as the tokens map it leaves
WithCredential(toks, p, domain) ==
    IF toks[domain] = NoToken \/ ~CheckJwtIsValid(toks[domain])
    THEN [toks EXCEPT ![domain] = GenerateApiToken(p, domain)]
    ELSE toks

NoHeaders == [authorization |-> NoToken, passport |-> Absent]

IdleAuthCall == [pc |-> "idle", domain |-> "a.example", headers |-> NoHeaders]

AuthCanStart(c) == authCalls[c].pc \in {"idle", "done", "failed"}

\* getHeaders(domain) up to its return or to the fetch getPassport() issues
GetHeadersCall(c, domain) ==
    IF provider.kind = "guest"
    THEN /\ authCalls' = [authCalls EXCEPT ![c] =
                [pc |-> "done", domain |-> domain, headers |-> NoHeaders]]
         /\ UNCHANGED <<tokens, passport>>
    ELSE LET toks1 == WithCredential(tokens, provider, domain)
             hdrs  == [authorization |-> toks1[domain], passport |-> passport]
         IN  IF passport # Absent
             THEN /\ authCalls' = [authCalls EXCEPT ![c] =
                        [pc |-> "done", domain |-> domain, headers |-> hdrs]]
                  /\ tokens' = toks1
                  /\ UNCHANGED passport
             ELSE /\ authCalls' = [authCalls EXCEPT ![c] =
                        [pc |-> "fetch", domain |-> domain, headers |-> hdrs]]
                  /\ tokens' = WithCredential(toks1, provider, provider.host)
                  /\ UNCHANGED passport

GetHeaders(c, domain) ==
    /\ AuthCanStart(c)
    /\ GetHeadersCall(c, domain)
    /\ UNCHANGED provider

\* the passport request settles: a response, or a rejection that getPassport
\* and getHeaders pass on
PassportResponds(c, ok) ==
    /\ authCalls[c].pc = "fetch"
    /\ authCalls' = [authCalls EXCEPT ![c] =
            IF ok THEN [@ EXCEPT !.pc = "json"]
            ELSE [pc |-> "failed", domain |-> @.domain, headers |-> NoHeaders]]
    /\ UNCHANGED <<provider, passport, tokens>>

\* `.then(async (res) => await res.json()).then((data) => { this.passport = data.content ... })`
PassportJson(c, content) ==
    /\ authCalls[c].pc = "json"
    /\ passport' = content
    /\ authCalls' = [authCalls EXCEPT ![c] =
            [@ EXCEPT !.pc = "done", !.headers.passport = content]]
    /\ UNCHANGED <<provider, tokens>>

\* a minted token reaches its expiry
ExpireToken(domain) ==
    /\ tokens[domain] # NoToken /\ tokens[domain].valid
    /\ tokens' = [tokens EXCEPT ![domain].valid = FALSE]
    /\ UNCHANGED <<provider, passport, authCalls>>

InitAuthWith(kinds) ==
    /\ provider \in {p \in Providers : p.kind \in kinds}
    /\ passport = Absent
    /\ tokens = [d \in TokenDomains |-> NoToken]
    /\ authCalls = [c \in HeaderCalls |-> IdleAuthCall]

InitAuth(kind) == InitAuthWith({kind})

\* ------------------------------------------------------------ commit ----
MaxCommitCalls == 1
CommitCalls == 1..MaxCommitCalls

\* the objects callers hand to commit: any field may be set already
Objs ==
    [type : {"message"}, signer : {Absent, "con1", "con2"}, keyID : {Absent, "cck1", "cck0"}]

\* JSON.stringify(obj): a property whose value is undefined is left out
Stringify(obj) == [f \in {g \in DOMAIN obj : obj[g] # Absent} |-> obj[f]]

\* authProvider.sign(document)
Sign(p, document) == [key |-> p.kind, over |-> document]

NoObj == [type |-> Absent, signer |-> Absent, keyID |-> Absent]
IdleCommit == [pc |-> "idle", obj |-> NoObj, host |-> ""]
NoPost == [sent |-> FALSE]

\* commit(obj, host) up to `await this.authProvider.getHeaders(host)`;
\* GuestAuthProvider.getCCID throws
Commit(c, obj, host) ==
    /\ commits[c].pc \in {"idle", "done", "failed"}
    /\ AuthCanStart(c)
    /\ IF provider.kind = "guest"
       THEN /\ commits' = [commits EXCEPT ![c] = [pc |-> "failed", obj |-> obj, host |-> host]]
            /\ UNCHANGED <<authCalls, tokens>>
       ELSE /\ commits' = [commits EXCEPT ![c] =
                    [pc |-> "getHeaders", host |-> host,
                     obj |-> [obj EXCEPT !.signer = provider.ccid,
                                         !.keyID = IF provider.ckid # Absent
                                                   THEN provider.ckid ELSE @]]]
            /\ GetHeadersCall(c, host)
    /\ UNCHANGED <<provider, passport, posted>>

\* ... from the headers to `fetch('https://' + (host || defaultHost) + '/api/v1/commit', ...)`
CommitAfterHeaders(c) ==
    /\ commits[c].pc = "getHeaders"
    /\ authCalls[c].pc \in {"done", "failed"}
    /\ IF authCalls[c].pc = "failed"
       THEN /\ commits' = [commits EXCEPT ![c].pc = "failed"]
            /\ UNCHANGED posted
       ELSE /\ commits' = [commits EXCEPT ![c].pc = "fetch"]
            /\ posted' = [sent |-> TRUE, host |-> FetchHost(commits[c].host),
                          document |-> Stringify(commits[c].obj),
                          signature |-> Sign(provider, Stringify(commits[c].obj)),
                          headers |-> authCalls[c].headers]
    /\ UNCHANGED authVars

\* ... and to the end of commit
CommitResponds(c, ok) ==
    /\ commits[c].pc = "fetch"
    /\ commits' = [commits EXCEPT ![c].pc = IF ok THEN "done" ELSE "failed"]
    /\ UNCHANGED <<authVars, posted>>

InitCommit ==
    /\ commits = [c \in CommitCalls |-> IdleCommit]
    /\ posted = NoPost

\* ------------------------------------------------------------ socket ----
MaxConns == 3
MaxAttempts == 17
Timelines == {"t1", "t2"}
Callbacks == {"cb1", "cb2"}

NoFrame == [type |-> "none", channels |-> {}]
ListenFrame(channels) == [type |-> "listen", channels |-> channels]
UnlistenFrame(channels) == [type |-> "unlisten", channels |-> channels]
HeartbeatFrame == [type |-> "h", channels |-> {}]

NoneSent == [first |-> NoFrame, last |-> NoFrame]

\* Socket.ws: connect() overwrites it with the connection it creates
ws == Len(conns)

\* this.ws.send(frame): a frame goes out on an OPEN connection only (send
\* throws while CONNECTING and drops the frame once CLOSED)
WsSend(cs, out, frame) ==
    IF cs[Len(cs)] # "OPEN" THEN out
    ELSE [first |-> IF out.first = NoFrame THEN frame ELSE out.first,
          last |-> IF frame.type \in {"listen", "unlisten"} THEN frame ELSE out.last]

\* A variant that announces no channel.
OpenFrameEmpty(subs) == ListenFrame({})

\* ws.onopen: { type: 'listen', channels: Array.from(this.subscriptions.keys()) }
OpenFrame(subs) == ListenFrame(DOMAIN subs)

\* connect(): this.ws = new WS(url)
Connect(cs) == Append(cs, "CONNECTING")

\* the open event of connection i, and its onopen handler
WsOpen(i) ==
    /\ conns[i] = "CONNECTING"
    /\ conns' = [conns EXCEPT ![i] = "OPEN"]
    /\ sent' = WsSend(conns', sent, OpenFrame(subscriptions))
    /\ UNCHANGED <<subscriptions, failcount, reconnecting, reconnectTimer, reconnectDelay>>

\* the close event of connection i (onclose only logs)
WsClose(i) ==
    /\ conns[i] # "CLOSED"
    /\ conns' = [conns EXCEPT ![i] = "CLOSED"]
    /\ UNCHANGED <<subscriptions, sent, failcount, reconnecting, reconnectTimer, reconnectDelay>>

\* connect() has overwritten this.ws: once the oldest connection is closed
\* nothing refers to it any more
Forget ==
    /\ Len(conns) > 1
    /\ conns[1] = "CLOSED"
    /\ conns' = Tail(conns)
    /\ UNCHANGED <<subscriptions, sent, failcount, reconnecting, reconnectTimer, reconnectDelay>>

\* heartbeat(), every 30 s
Heartbeat ==
    /\ sent' = WsSend(conns, sent, HeartbeatFrame)
    /\ UNCHANGED <<subscriptions, conns, failcount, reconnecting, reconnectTimer, reconnectDelay>>

\* A variant whose exponent stops growing at 14.
ReconnectDelayCappedAt14(n) ==
    LET m == IF n < 14 THEN n ELSE 14
    IN  IF m < 2 THEN 125 * (3 ^ m) * (2 ^ (2 - m)) ELSE (125 * (3 ^ m)) \div (2 ^ (m - 2))

\* 500 * Math.pow(1.5, Math.min(this.failcount, 15)), in whole milliseconds
ReconnectDelay(n) ==
    LET m == IF n < 15 THEN n ELSE 15
    IN  IF m < 2 THEN 125 * (3 ^ m) * (2 ^ (2 - m)) ELSE (125 * (3 ^ m)) \div (2 ^ (m - 2))

\* reconnect()
Reconnect(count) ==
    IF conns[ws] = "OPEN"
    THEN /\ reconnecting' = FALSE
         /\ failcount' = 0
         /\ reconnectTimer' = FALSE
         /\ reconnectDelay' = 0
         /\ UNCHANGED <<conns, sent, subscriptions>>
    ELSE /\ Len(conns) < MaxConns
         /\ count < MaxAttempts
         /\ conns' = Connect(conns)
         /\ sent' = NoneSent
         /\ failcount' = count + 1
         /\ reconnectTimer' = TRUE
         /\ reconnectDelay' = ReconnectDelay(count + 1)
         /\ UNCHANGED <<reconnecting, subscriptions>>

\* checkConnection(), every second
CheckConnection ==
    /\ conns[ws] # "OPEN" /\ ~reconnecting
    /\ reconnecting' = TRUE
    /\ Len(conns) < MaxConns
    /\ conns' = Connect(conns)
    /\ sent' = NoneSent
    /\ failcount' = 1
    /\ reconnectTimer' = TRUE
    /\ reconnectDelay' = ReconnectDelay(1)
    /\ UNCHANGED subscriptions

\* the timer set by reconnect() fires
ReconnectTimeout ==
    /\ reconnectTimer
    /\ Reconnect(failcount)

\* A variant that announces only the timelines of the call.
OnlyTimelines(subs, timelines) == timelines

\* the channels of the frame listen() sends: newtimelines
ListenChannels(subs, timelines) == DOMAIN subs

\* subscriptions after listen(timelines, callback): every topic gets a set
\* if it has none, and the callback is added to it
Listened(subs, timelines, callback) ==
    [t \in DOMAIN subs \cup timelines |->
        (IF t \in DOMAIN subs THEN subs[t] ELSE {})
        \cup (IF t \in timelines THEN {callback} ELSE {})]

\* A variant that keeps a topic whose last callback was taken out.
UnlistenedKeepsEmpty(subs, timelines, callback) ==
    [t \in DOMAIN subs |-> IF t \in timelines THEN subs[t] \ {callback} ELSE subs[t]]

\* subscriptions after unlisten(timelines, callback): the callback is taken
\* out of every topic that is a key, and a topic left with no callback is dropped
Unlistened(subs, timelines, callback) ==
    LET emptied == {t \in DOMAIN subs \cap timelines : subs[t] \ {callback} = {}}
    IN  [t \in DOMAIN subs \ emptied |->
            IF t \in timelines THEN subs[t] \ {callback} ELSE subs[t]]

\* A variant that sends whenever the call names a timeline.
ListenSendsAlways(before, after) == TRUE

\* `if (newtimelines.length > currenttimelines.length)`
ListenSends(before, after) == Cardinality(DOMAIN after) > Cardinality(DOMAIN before)

\* `if (newtimelines.length < currenttimelines.length)`
UnlistenSends(before, after) == Cardinality(DOMAIN after) < Cardinality(DOMAIN before)

\* listen(timelines, callback)
Listen(timelines, callback) ==
    LET added == Listened(subscriptions, timelines, callback)
    IN  /\ subscriptions' = added
        /\ sent' = IF ListenSends(subscriptions, added)
                   THEN WsSend(conns, sent, ListenFrame(ListenChannels(added, timelines)))
                   ELSE sent
        /\ UNCHANGED <<conns, failcount, reconnecting, reconnectTimer, reconnectDelay>>

\* unlisten(timelines, callback)
Unlisten(timelines, callback) ==
    LET left == Unlistened(subscriptions, timelines, callback)
    IN  /\ subscriptions' = left
        /\ sent' = IF UnlistenSends(subscriptions, left)
                   THEN WsSend(conns, sent, UnlistenFrame(DOMAIN left))
                   ELSE sent
        /\ UNCHANGED <<conns, failcount, reconnecting, reconnectTimer, reconnectDelay>>

\* The calls seen from outside: what the call was given, the subscriptions
\* it found, the frame it handed to ws.send (NoFrame when it called no
\* send), and whether send threw.
\* `undoes` says that an unlisten call came right after a listen call with
\* the same arguments, and `prior` is what that listen call found.
NoSubscriptions == [t \in {} |-> {}]

NoSocketCall ==
    [op |-> "none", timelines |-> {}, callback |-> "none",
     before |-> NoSubscriptions, frame |-> NoFrame, threw |-> FALSE,
     undoes |-> FALSE, prior |-> NoSubscriptions]

\* WebSocket.send throws while the connection is CONNECTING
SendThrows(cs) == cs[Len(cs)] = "CONNECTING"

ListenCall(timelines, callback) ==
    /\ Listen(timelines, callback)
    /\ LET added == Listened(subscriptions, timelines, callback)
           sends == ListenSends(subscriptions, added)
       IN  lastCall' = [op |-> "listen", timelines |-> timelines, callback |-> callback,
                        before |-> subscriptions,
                        frame |-> IF sends THEN ListenFrame(ListenChannels(added, timelines))
                                  ELSE NoFrame,
                        threw |-> sends /\ SendThrows(conns),
                        undoes |-> FALSE, prior |-> NoSubscriptions]
    /\ UNCHANGED <<lastBeat, waiting, reader>>

UnlistenCall(timelines, callback) ==
    /\ Unlisten(timelines, callback)
    /\ LET left == Unlistened(subscriptions, timelines, callback)
           sends == UnlistenSends(subscriptions, left)
           undoes == /\ lastCall.op = "listen"
                     /\ lastCall.timelines = timelines
                     /\ lastCall.callback = callback
       IN  lastCall' = [op |-> "unlisten", timelines |-> timelines, callback |-> callback,
                        before |-> subscriptions,
                        frame |-> IF sends THEN UnlistenFrame(DOMAIN left) ELSE NoFrame,
                        threw |-> sends /\ SendThrows(conns),
                        undoes |-> undoes,
                        prior |-> IF undoes THEN lastCall.before ELSE NoSubscriptions]
    /\ UNCHANGED <<lastBeat, waiting, reader>>

\* the 30 s interval set by the constructor: heartbeat()
HeartbeatTick ==
    /\ Heartbeat
    /\ lastBeat' = [state |-> conns[ws], frame |-> HeartbeatFrame,
                    out |-> WsSend(conns, NoneSent, HeartbeatFrame).first,
                    threw |-> SendThrows(conns)]
    /\ UNCHANGED <<lastCall, waiting, reader>>

\* waitOpen(): `const maxNumberOfAttempts = 10`, `const intervalTime = 200`
maxNumberOfAttempts == 10
intervalTime == 200

\* `polls` counts the callbacks of the interval, `elapsed` is the time since
\* the call, `open` tells what the last callback read in readyState.
NotWaiting ==
    [promise |-> "none", currentAttempt |-> 0, interval |-> FALSE,
     polls |-> 0, elapsed |-> 0, open |-> FALSE]

\* A variant that gives up one callback later.
GivesUpLate(attempt) == attempt > maxNumberOfAttempts

\* `if (currentAttempt > maxNumberOfAttempts - 1)`
GivesUp(attempt) == attempt > maxNumberOfAttempts - 1

\* waitOpen(): the promise is created and the interval set
WaitOpen ==
    /\ waiting.promise # "pending"
    /\ waiting' = [NotWaiting EXCEPT !.promise = "pending", !.interval = TRUE]
    /\ UNCHANGED <<lastCall, lastBeat, reader>>

\* the callback of the interval, every intervalTime ms until clearInterval
WaitOpenPoll ==
    /\ waiting.interval
    /\ LET isOpen == conns[ws] = "OPEN"
           w == [waiting EXCEPT !.currentAttempt = @ + 1, !.polls = @ + 1,
                                !.elapsed = @ + intervalTime, !.open = isOpen]
       IN  waiting' =
             IF GivesUp(waiting.currentAttempt)
             THEN [w EXCEPT !.interval = FALSE, !.promise = "rejected"]
             ELSE IF isOpen
             THEN [w EXCEPT !.interval = FALSE, !.promise = "resolved"]
             ELSE w
    /\ UNCHANGED <<lastCall, lastBeat, reader>>

\* ------------------------------------------------- TimelineReader ------
MaxResp == 2
MaxListens == 1
ReadMoreCalls == {1, 2}
Items == {"m1", "m2", "m3"}

Range(seq) == {seq[i] : i \in 1..Len(seq)}
NoDuplicate(seq) == \A i, j \in 1..Len(seq) : i # j => seq[i] # seq[j]

\* what the server answers to getTimelineRecent / getTimelineRanged: a list
\* of items, no resourceID twice
TimelineResponses ==
    {r \in UNION {[1..n -> Items] : n \in 0..MaxResp} : NoDuplicate(r)}

\* the events a socket hands to a listener: what parsedDoc.type says, the
\* timeline, and the resourceID of the item (message, default) or the target
\* of the document (association, delete)
ReaderEvents ==
    [type : {"message", "association", "delete", "other"}, timeline : Timelines, id : Items]
NoReaderEvent == [type |-> "none", id |-> "none"]

\* `this.processEvent`, the method, and `this.processEvent.bind(this)`, a new
\* function object with every call of bind
UnboundProcessEvent == "processEvent"
BoundProcessEvent(n) == IF n = 1 THEN "bound1" ELSE IF n = 2 THEN "bound2" ELSE "bound3"
ReaderCallbacks == {UnboundProcessEvent, "bound1", "bound2", "bound3"}

IdleReader ==
    [body |-> <<>>, streams |-> {}, disposed |-> FALSE, binds |-> 0,
     listen |-> [pc |-> "idle", streams |-> {}],
     more |-> [c \in ReadMoreCalls |-> "idle"], reload |-> "idle",
     last |-> NoReaderEvent, late |-> FALSE]

\* A variant of readMore that appends all it got.
NewDataUnfiltered(body, items) == items

\* readMore: `items.filter(item => !this.body.find(i => i.resourceID === item.resourceID))`
NewData(body, items) ==
    LET IsNew(m) == m \notin Range(body)
    IN  SelectSeq(items, IsNew)

\* processEvent(event), as the body it leaves
ProcessEvent(body, e) ==
    LET Other(m) == m # e.id
    IN  CASE e.type \in {"message", "other"} ->
                IF e.id \in Range(body) THEN body ELSE <<e.id>> \o body
          [] e.type = "association" -> body
          [] e.type = "delete" -> SelectSeq(body, Other)

RECURSIVE ProcessEventTimes(_, _, _)
ProcessEventTimes(body, e, n) ==
    IF n = 0 THEN body ELSE ProcessEventTimes(ProcessEvent(body, e), e, n - 1)

\* TimelineReader.listen(streams) up to `await this.api.getTimelineRecent(streams)`
ReaderListen(streams) ==
    /\ ~reader.disposed
    /\ reader.listen.pc = "idle"
    /\ reader.binds < MaxListens
    /\ reader' = [reader EXCEPT !.streams = streams, !.last = NoReaderEvent,
                                !.listen = [pc |-> "await", streams |-> streams]]
    /\ UNCHANGED <<socketVars, lastCall, lastBeat, waiting>>

\* ... the items arrive: `this.body = itemsWithUpdate`, then
\* `this.socket?.listen(streams, this.processEvent.bind(this))`
ReaderListenResolved(items) ==
    /\ reader.listen.pc = "await"
    /\ Listen(reader.listen.streams, BoundProcessEvent(reader.binds + 1))
    /\ reader' = [reader EXCEPT !.body = items, !.binds = @ + 1, !.last = NoReaderEvent,
                                !.listen = [pc |-> "idle", streams |-> {}]]
    /\ UNCHANGED <<lastCall, lastBeat, waiting>>

\* ... or getTimelineRecent rejects, and listen with it
ReaderListenRejected ==
    /\ reader.listen.pc = "await"
    /\ reader' = [reader EXCEPT !.listen = [pc |-> "idle", streams |-> {}],
                                !.last = NoReaderEvent]
    /\ UNCHANGED <<socketVars, lastCall, lastBeat, waiting>>

\* readMore() up to `await this.api.getTimelineRanged(...)`; with an empty
\* body it returns false at once
ReaderReadMore(c) ==
    /\ ~reader.disposed
    /\ reader.more[c] = "idle"
    /\ Len(reader.body) > 0
    /\ reader' = [reader EXCEPT !.more[c] = "await", !.last = NoReaderEvent]
    /\ UNCHANGED <<socketVars, lastCall, lastBeat, waiting>>

\* ... the items arrive: those not in body are appended.  A readMore call
\* that another call has appended to body under is marked "overtaken", and
\* `last` tells when such a call has returned.
ReaderReadMoreResolved(c, items) ==
    /\ reader.more[c] \in {"await", "overtaken"}
    /\ LET newdata == NewData(reader.body, items)
       IN  reader' = [reader EXCEPT
                !.more = [d \in ReadMoreCalls |->
                            IF d = c THEN "idle"
                            ELSE IF @[d] = "await" /\ Len(newdata) > 0 THEN "overtaken"
                            ELSE @[d]],
                !.last = IF reader.more[c] = "overtaken"
                         THEN [type |-> "readMore", id |-> "overtaken"]
                         ELSE NoReaderEvent,
                !.body = @ \o newdata]
    /\ UNCHANGED <<socketVars, lastCall, lastBeat, waiting>>

\* reload() up to `await this.api.getTimelineRecent(this.streams)`
ReaderReload ==
    /\ ~reader.disposed
    /\ reader.reload = "idle"
    /\ reader' = [reader EXCEPT !.reload = "await", !.last = NoReaderEvent]
    /\ UNCHANGED <<socketVars, lastCall, lastBeat, waiting>>

\* ... the items arrive: `this.body = itemsWithUpdate`
ReaderReloadResolved(items) ==
    /\ reader.reload = "await"
    /\ reader' = [reader EXCEPT !.reload = "idle", !.body = items, !.last = NoReaderEvent]
    /\ UNCHANGED <<socketVars, lastCall, lastBeat, waiting>>

\* dispose(): `this.socket?.unlisten(this.streams, this.processEvent)`
ReaderDispose ==
    /\ ~reader.disposed
    /\ Unlisten(reader.streams, UnboundProcessEvent)
    /\ reader' = [reader EXCEPT !.disposed = TRUE, !.last = NoReaderEvent]
    /\ UNCHANGED <<lastCall, lastBeat, waiting>>

\* an event arrives on an open connection: distribute(event.timeline, event)
\* calls every callback of the timeline, those of the reader run processEvent;
\* `last` keeps a delete event up to the next step of the reader
ReaderEvent(e) ==
    /\ \E i \in 1..Len(conns) : conns[i] = "OPEN"
    /\ e.timeline \in DOMAIN subscriptions
    /\ LET n == Cardinality(subscriptions[e.timeline] \cap ReaderCallbacks)
       IN  /\ n > 0
           /\ reader' = [reader EXCEPT !.body = ProcessEventTimes(@, e, n),
                                       !.last = IF e.type = "delete"
                                                THEN [type |-> e.type, id |-> e.id]
                                                ELSE NoReaderEvent,
                                       !.late = @ \/ reader.disposed]
    /\ UNCHANGED <<socketVars, lastCall, lastBeat, waiting>>

InitCalls ==
    /\ lastCall = NoSocketCall
    /\ lastBeat = [state |-> "none", frame |-> NoFrame, out |-> NoFrame, threw |-> FALSE]
    /\ waiting = NotWaiting
    /\ reader = IdleReader

\* new Socket(api): no subscription, failcount 0, and connect() called
InitSocket ==
    /\ subscriptions = [t \in {} |-> {}]
    /\ conns = Connect(<<>>)
    /\ sent = NoneSent
    /\ failcount = 0
    /\ reconnecting = FALSE
    /\ reconnectTimer = FALSE
    /\ reconnectDelay = 0

\* ------------------------------------------------- socket events --------
MaxFrames == 3
KvsKinds == {"InMemoryKVS", "IndexedDBKVS"}

\* The TimelineEvent frames the server sends: the timeline, the type of the
\* parsed document, whether a resource comes with it, and for a message the
\* version of the resource.  Messages and targets are m1.
EventTypes == {"message", "association", "delete-m", "delete-a", "other"}

EventFrames ==
    [timeline : Timelines, type : EventTypes, resource : BOOLEAN, value : Values]

\* the cases of ws.onmessage that call invalidateMessage
NoEvent == [type |-> "none", resource |-> FALSE, cached |-> FALSE]

\* A variant in which only association frames invalidate.
InvalidatesOnAssociation(f) ==
    f.type = "association"

\* the cases of ws.onmessage that call api.invalidateMessage
Invalidates(f) ==
    \/ f.type \in {"association", "delete-m"}
    \/ (f.type = "delete-a" /\ f.resource)

\* `resource.target` of a missing resource: the handler throws
Throws(f) == f.type = "delete-a" /\ ~f.resource

\* the case of ws.onmessage that awaits cache.set
Upserts(f) == f.type = "message" /\ f.resource

\* distribute(timelineID, event): the callbacks of the timeline are called
Distribute(seq, timeline) ==
    IF timeline \in DOMAIN subscriptions
    THEN Append(delivered, [seq |-> seq, timeline |-> timeline])
    ELSE delivered

\* ws.onmessage up to its await, or to its end.  A message event is its own
\* task: with InMemoryKVS the continuation of an earlier handler (a
\* microtask) has run before it; IndexedDBKVS answers in a later task.
OnMessage(f) ==
    /\ frames < MaxFrames
    /\ kvs = "InMemoryKVS" => handlers = {}
    /\ frames' = frames + 1
    /\ lastEvent' = [type |-> f.type, resource |-> f.resource,
                     cached |-> KvsGet(cache, MessageKey("m1")).present]
    /\ IF Upserts(f)
       THEN /\ handlers' = handlers \cup
                    {[seq |-> frames + 1, timeline |-> f.timeline, value |-> f.value]}
            /\ cache' = IF kvs = "InMemoryKVS"
                        THEN KvsSet(cache, MessageKey("m1"), f.value, now)
                        ELSE cache
            /\ UNCHANGED <<kvsOps, delivered>>
       ELSE /\ IF Invalidates(f)
               THEN IF kvs = "InMemoryKVS"
                    THEN cache' = KvsInvalidate(cache, MessageKey("m1")) /\ kvsOps' = kvsOps
                    ELSE cache' = cache /\ kvsOps' = kvsOps \cup {frames + 1}
               ELSE UNCHANGED <<cache, kvsOps>>
            /\ delivered' = IF Throws(f) THEN delivered
                            ELSE Distribute(frames + 1, f.timeline)
            /\ UNCHANGED handlers
    /\ UNCHANGED <<now, kvs>>

\* ws.onmessage after `await this.api.cache.set(...)`: distribute.  With
\* IndexedDBKVS the put has succeeded just before.
AfterCacheSet(h) ==
    /\ h \in handlers
    /\ handlers' = handlers \ {h}
    /\ cache' = IF kvs = "IndexedDBKVS"
                THEN KvsSet(cache, MessageKey("m1"), h.value, now)
                ELSE cache
    /\ delivered' = Distribute(h.seq, h.timeline)
    /\ UNCHANGED <<now, kvs, frames, kvsOps, lastEvent>>

\* IndexedDBKVS.invalidate: the delete request succeeds
KvsDeleteDone(op) ==
    /\ op \in kvsOps
    /\ kvsOps' = kvsOps \ {op}
    /\ cache' = KvsInvalidate(cache, MessageKey("m1"))
    /\ UNCHANGED <<now, kvs, frames, handlers, lastEvent, delivered>>

InitEvents(kinds) ==
    /\ kvs \in kinds
    /\ frames = 0
    /\ handlers = {}
    /\ kvsOps = {}
    /\ lastEvent = NoEvent
    /\ delivered = <<>>

\* --------------------------------------------------- write helpers ------
\* upsertProfile and the reads of profile:p1 around it.  The server holds
\* version 1 of the profile until it applies the commit and a later version
\* from then on.  `early` are the requests that were on their way when the
\* commit was applied: the server may have answered them before it.  `late`
\* are the reads that started after upsertProfile settled.
PreCommit == 1

IdleUpsert == [pc |-> "idle", early |-> {}, late |-> {}, deleting |-> FALSE]

\* upsertProfile: the server applies the document commit() posted
UpsertApplied ==
    /\ upsert.pc = "idle"
    /\ upsert' = [upsert EXCEPT !.pc = "applied",
                                !.early = {c \in Calls : reqs[c].pc = "pending"}]
    /\ UNCHANGED <<now, cache, fetchVars, write>>

\* upsertProfile after `await this.commit(...)`: invalidateProfile(ret.id), return.
\* The promise of cache.invalidate is not awaited: InMemoryKVS has deleted
\* the key when the call returns, IndexedDBKVS deletes it in a later task.
UpsertProfileReturns ==
    /\ upsert.pc = "applied"
    /\ MicrotasksDone
    /\ IF kvs = "InMemoryKVS"
       THEN /\ cache' = KvsInvalidate(cache, ProfileKey("p1"))
            /\ upsert' = [upsert EXCEPT !.pc = "settled"]
       ELSE /\ cache' = cache
            /\ upsert' = [upsert EXCEPT !.pc = "settled", !.deleting = TRUE]
    /\ UNCHANGED <<now, fetchVars, write>>

\* IndexedDBKVS.invalidate of upsertProfile: the delete request succeeds
UpsertDeleteDone ==
    /\ upsert.deleting
    /\ cache' = KvsInvalidate(cache, ProfileKey("p1"))
    /\ upsert' = [upsert EXCEPT !.deleting = FALSE]
    /\ UNCHANGED <<now, fetchVars, write>>

\* getProfile -> fetchWithCache on profile:p1
GetProfile(c, opt, ttl) ==
    /\ FetchWithCache(c, ProfileKey("p1"), "", opt, ttl, "auth")
    /\ upsert' = [upsert EXCEPT !.late = IF upsert.pc = "settled"
                                         THEN @ \cup {c} ELSE @ \ {c}]
    /\ UNCHANGED write

\* what the server can answer to request c
ServerAnswers(c, res) ==
    \/ res.status # 200
    \/ res.content = PreCommit /\ (upsert.pc = "idle" \/ c \in upsert.early)
    \/ res.content # PreCommit /\ upsert.pc # "idle"

RespondProfile(c, res) ==
    /\ ServerAnswers(c, res)
    /\ Respond(c, res)
    /\ UNCHANGED <<upsert, write>>

\* createAssociation and createMessage.  createAssociation looks up the
\* host of the target's author before it reads the provider's identity;
\* createMessage, like the other helpers, reads the identity first.
IdleWrite == [helper |-> "none", pc |-> "idle", call |-> NoCall, res |-> "none"]

AssociationObj == [type |-> "association", signer |-> Absent, keyID |-> Absent]

\* authProvider.getCCID(): GuestAuthProvider throws "Method not implemented."
GetCCIDThrows(p) == p.kind = "guest"

\* createAssociation up to `await this.resolveDomain(targetAuthor)`:
\* resolveDomain -> getEntity -> fetchWithCache with cache 'best-effort'
CreateAssociation(c) ==
    /\ write.pc \in {"idle", "failed"}
    /\ FetchWithCache(c, EntityKey("e1"), "", "best-effort", defaultCacheTTL, "auth")
    /\ write' = [helper |-> "createAssociation", pc |-> "resolveDomain",
                 call |-> c, res |-> "none"]
    /\ UNCHANGED <<upsert, authVars, commitVars>>

\* ... from the host to getCCID and to the call of commit
CreateAssociationResolved ==
    /\ write.pc = "resolveDomain"
    /\ calls[write.call].pc = "done"
    /\ LET call == calls[write.call]
       IN  IF call.res # "ok"
           THEN /\ write' = [write EXCEPT !.pc = "failed",
                        !.res = IF call.res = "null" THEN "NotFound" ELSE call.res]
                /\ UNCHANGED <<authVars, commitVars>>
           ELSE IF GetCCIDThrows(provider)
           THEN /\ write' = [write EXCEPT !.pc = "failed", !.res = "NotImplemented"]
                /\ UNCHANGED <<authVars, commitVars>>
           ELSE /\ write' = [write EXCEPT !.pc = "commit"]
                /\ Commit(1, AssociationObj, "")
    /\ UNCHANGED <<now, cache, fetchVars, upsert>>

\* createMessage: getCCID, then commit
CreateMessage(obj) ==
    /\ write.pc \in {"idle", "failed"}
    /\ IF GetCCIDThrows(provider)
       THEN /\ write' = [helper |-> "createMessage", pc |-> "failed",
                         call |-> NoCall, res |-> "NotImplemented"]
            /\ UNCHANGED <<authVars, commitVars>>
       ELSE /\ write' = [helper |-> "createMessage", pc |-> "commit",
                         call |-> NoCall, res |-> "none"]
            /\ Commit(1, obj, "")
    /\ UNCHANGED <<now, cache, fetchVars, upsert>>

InitWrite ==
    /\ upsert = IdleUpsert
    /\ write = IdleWrite

\* ----------------------------------------------- resolveTimelineHost ----
\* A string is a sequence of pieces; of a piece the model keeps the text and
\* what startsWith, includes('.') and length see of it.
Piece(text, prefix, dotted, length) ==
    [text |-> text, prefix |-> prefix, dotted |-> dotted, length |-> length]

MaxResolveCalls == 2
ResolveCalls == 1..MaxResolveCalls

At == Piece("@", "@", FALSE, 1)
TimelineName == Piece("t1", "t1", FALSE, 2)
DefaultHostStr == <<Piece("a.example", "a.ex", TRUE, 9)>>
RemoteHostStr == <<Piece("b.example", "b.ex", TRUE, 9)>>
CCIDStr == <<Piece("con1", "con1", FALSE, 4), Piece("aa..a", "aaaa", FALSE, 38)>>
CSIDStr == <<Piece("ccs1", "ccs1", FALSE, 4), Piece("aa..a", "aaaa", FALSE, 38)>>
ShortCCIDStr == <<Piece("con1", "con1", FALSE, 4), Piece("aa.a", "aaaa", FALSE, 37)>>
DottedCCIDStr == <<Piece("con1", "con1", FALSE, 4), Piece("aaa.aa..a", "aaaa", TRUE, 38)>>
EmptyStr == <<>>

HostStrs == {DefaultHostStr, RemoteHostStr, CCIDStr, CSIDStr, ShortCCIDStr,
             DottedCCIDStr, EmptyStr}

\* the timeline ids the calls are made with
TimelineIDs ==
    {<<TimelineName>>}
    \cup {<<TimelineName, At>> \o h : h \in HostStrs}
    \cup {<<TimelineName, At>> \o RemoteHostStr \o <<At>> \o CCIDStr}

RECURSIVE StrLength(_)
StrLength(str) == IF str = <<>> THEN 0 ELSE Head(str).length + StrLength(Tail(str))

StartsWith(str, prefix) == str # <<>> /\ Head(str).prefix = prefix
IncludesDot(str) == \E i \in 1..Len(str) : str[i].dotted

\* model.ts: IsCCID, IsCSID
IsCCID(str) == StartsWith(str, "con1") /\ ~IncludesDot(str) /\ StrLength(str) = 42
IsCSID(str) == StartsWith(str, "ccs1") /\ ~IncludesDot(str) /\ StrLength(str) = 42

\* timeline.split('@')
RECURSIVE SplitAt(_, _, _)
SplitAt(str, current, done) ==
    IF str = <<>> THEN Append(done, current)
    ELSE IF Head(str) = At THEN SplitAt(Tail(str), <<>>, Append(done, current))
    ELSE SplitAt(Tail(str), Append(current, Head(str)), done)

Split(str) == SplitAt(str, <<>>, <<>>)

\* A variant that takes the part before the '@'.
HostPartFirst(split) == split[1]

\* split[1] ?? this.defaultHost (JavaScript counts from 0)
HostPart(split) == IF Len(split) >= 2 THEN split[2] ELSE DefaultHostStr

\* what the awaited lookup gives: an error, no record, or a record whose
\* domain / fqdn field is a string or is missing
NoAnswer == [kind |-> "none", field |-> EmptyStr]
LookupAnswers ==
    {[kind |-> "error", field |-> EmptyStr], [kind |-> "null", field |-> EmptyStr],
     [kind |-> "undefined", field |-> EmptyStr]}
    \cup {[kind |-> "record", field |-> f] : f \in {RemoteHostStr, DefaultHostStr, EmptyStr}}

NoLookup == [kind |-> "none", on |-> ""]
IdleResolve == [pc |-> "idle", timeline |-> <<>>, lookup |-> NoLookup,
                answer |-> NoAnswer, res |-> "none", host |-> EmptyStr]

\* resolveTimelineHost(timeline) up to `await this.resolveDomain(host)`;
\* resolveDomain(host) without a hint: getDomainByCSID on defaultHost, or
\* getEntity, whose resolver is defaultHost when there is no hint
ResolveTimelineHost(c, timeline) ==
    LET host == HostPart(Split(timeline))
    IN  /\ resolving[c].pc # "resolveDomain"
        /\ resolving' = [resolving EXCEPT ![c] =
             IF IsCCID(host) \/ IsCSID(host)
             THEN [IdleResolve EXCEPT !.pc = "resolveDomain", !.timeline = timeline,
                        !.lookup = [kind |-> IF IsCSID(host) THEN "domain" ELSE "entity",
                                    on |-> defaultHost]]
             ELSE [IdleResolve EXCEPT !.pc = "done", !.timeline = timeline,
                        !.res = "ok", !.host = host]]

\* resolveDomain settles: fetchWithCache failed; or `if (!data) throw new
\* NotFoundError`; or `return entity.domain` / `return domain.fqdn`, and then
\* `if (!domain) throw new Error('domain not found')`
ResolveDomainSettles(c, answer) ==
    /\ resolving[c].pc = "resolveDomain"
    /\ resolving' = [resolving EXCEPT ![c] =
         [@ EXCEPT !.pc = "done", !.answer = answer,
            !.res = CASE answer.kind = "error" -> "error"
                      [] answer.kind = "null" -> "NotFound"
                      [] answer.kind = "undefined" \/ answer.field = EmptyStr -> "domain not found"
                      [] OTHER -> "ok",
            !.host = IF answer.kind = "record" THEN answer.field ELSE EmptyStr]]

InitResolve == resolving = [c \in ResolveCalls |-> IdleResolve]

\* ------------------------------------------------------ specification ---
NoProbe == [pc |-> "idle", host |-> defaultHost, entry |-> NoEntry, answer |-> TRUE]

InitFetch ==
    /\ inFlightRequests = [k \in CacheKeys |-> NoCall]
    /\ calls = [c \in Calls |-> IdleCall]
    /\ reqs = [c \in Calls |-> NoReq]

InitLive == probe = NoProbe

Init ==
    /\ now = 0
    /\ cache = [k \in Keys |-> NoEntry]
    /\ InitFetch
    /\ InitLive
    /\ InitAuth("master")
    /\ InitCommit
    /\ InitSocket
    /\ InitEvents({"InMemoryKVS"})
    /\ InitWrite
    /\ InitResolve
    /\ InitTrace
    /\ InitCalls

\* The request engine on one cache key: caller 1 makes every kind of call,
\* the other callers are plain readers of the same key.
Next ==
    \/ /\ \E o \in CacheOpts, t \in TTLs, a \in Auths :
                FetchWithCache(1, EntityKey("e1"), "", o, t, a)
       /\ UNCHANGED <<liveVars, authVars, commitVars, socketVars, eventVars, writeVars, resolveVars, traceVars, callVars>>
    \/ /\ \E c \in Calls \ {1}, t \in TTLs :
                FetchWithCache(c, EntityKey("e1"), "", "default", t, "auth")
       /\ UNCHANGED <<liveVars, authVars, commitVars, socketVars, eventVars, writeVars, resolveVars, traceVars, callVars>>
    \/ (\E h \in Hosts : FetchWithCredential(1, h)) /\ UNCHANGED <<liveVars, authVars, commitVars, socketVars, eventVars, writeVars, resolveVars, traceVars, callVars>>
    \/ (\E h \in Hosts : FetchWithCredentialBlob(1, h)) /\ UNCHANGED <<liveVars, authVars, commitVars, socketVars, eventVars, writeVars, resolveVars, traceVars, callVars>>
    \/ (\E c \in Calls : AfterCacheGet(c)) /\ UNCHANGED <<liveVars, authVars, commitVars, socketVars, eventVars, writeVars, resolveVars, traceVars, callVars>>
    \/ (\E c \in Calls : AfterIsHostOnline(c)) /\ UNCHANGED <<liveVars, authVars, commitVars, socketVars, eventVars, writeVars, resolveVars, traceVars, callVars>>
    \/ (\E c \in Calls : AfterGetHeaders(c)) /\ UNCHANGED <<liveVars, authVars, commitVars, socketVars, eventVars, writeVars, resolveVars, traceVars, callVars>>
    \/ (\E c \in Calls, r \in Responses : Respond(c, r)) /\ UNCHANGED <<liveVars, authVars, commitVars, socketVars, eventVars, writeVars, resolveVars, traceVars, callVars>>
    \/ (\E c \in Calls : AfterMarkHostOffline(c)) /\ UNCHANGED <<liveVars, authVars, commitVars, socketVars, eventVars, writeVars, resolveVars, traceVars, callVars>>
    \/ (\E c \in Calls : AfterJson(c)) /\ UNCHANGED <<liveVars, authVars, commitVars, socketVars, eventVars, writeVars, resolveVars, traceVars, callVars>>
    \/ (\E c \in Calls : Finally(c)) /\ UNCHANGED <<liveVars, authVars, commitVars, socketVars, eventVars, writeVars, resolveVars, traceVars, callVars>>
    \/ Tick /\ UNCHANGED <<liveVars, authVars, commitVars, socketVars, eventVars, writeVars, resolveVars, traceVars, callVars>>

Spec == Init /\ [][Next]_vars

\* getMessage by every caller, with the socket writing message:m1.
NextMessage ==
    \/ (\E c \in Calls, t \in TTLs : GetMessage(c, "m1", "", t)) /\ UNCHANGED <<liveVars, authVars, commitVars, socketVars, eventVars, writeVars, resolveVars, traceVars, callVars>>
    \/ (\E c \in Calls : AfterCacheGet(c)) /\ UNCHANGED <<liveVars, authVars, commitVars, socketVars, eventVars, writeVars, resolveVars, traceVars, callVars>>
    \/ (\E c \in Calls : AfterIsHostOnline(c)) /\ UNCHANGED <<liveVars, authVars, commitVars, socketVars, eventVars, writeVars, resolveVars, traceVars, callVars>>
    \/ (\E c \in Calls : AfterGetHeaders(c)) /\ UNCHANGED <<liveVars, authVars, commitVars, socketVars, eventVars, writeVars, resolveVars, traceVars, callVars>>
    \/ (\E c \in Calls, r \in Responses : Respond(c, r)) /\ UNCHANGED <<liveVars, authVars, commitVars, socketVars, eventVars, writeVars, resolveVars, traceVars, callVars>>
    \/ (\E c \in Calls : AfterMarkHostOffline(c)) /\ UNCHANGED <<liveVars, authVars, commitVars, socketVars, eventVars, writeVars, resolveVars, traceVars, callVars>>
    \/ (\E c \in Calls : AfterJson(c)) /\ UNCHANGED <<liveVars, authVars, commitVars, socketVars, eventVars, writeVars, resolveVars, traceVars, callVars>>
    \/ (\E c \in Calls : Finally(c)) /\ UNCHANGED <<liveVars, authVars, commitVars, socketVars, eventVars, writeVars, resolveVars, traceVars, callVars>>
    \/ (\E v \in Values : OnMessageUpsert("m1", v)) /\ UNCHANGED <<liveVars, authVars, commitVars, socketVars, eventVars, writeVars, resolveVars, traceVars, callVars>>
    \/ Tick /\ UNCHANGED <<liveVars, authVars, commitVars, socketVars, eventVars, writeVars, resolveVars, traceVars, callVars>>

SpecMessage == Init /\ [][NextMessage]_vars

\* ------------------------------------------------- liveness, directly ---
MaxFail == 17

\* floor(500 * 1.5^n): the last whole millisecond inside window n (n >= 2).
WindowFloor(n) ==
    IF n < 2 THEN 125 * (3 ^ n) * (2 ^ (2 - n)) ELSE (125 * (3 ^ n)) \div (2 ^ (n - 2))

\* The values Date.now() takes: around the end of every window.
Instants ==
    {0} \cup UNION {{WindowFloor(n) - 1, WindowFloor(n), WindowFloor(n) + 1} : n \in 0..15}

\* isHostOnline(host), up to its `await this.cache.get(...)`.
IsHostOnlineCall(host) ==
    /\ probe.pc # "get"
    /\ probe' = [pc |-> "get", host |-> host,
                 entry |-> KvsGet(cache, OfflineKey(host)), answer |-> TRUE]
    /\ UNCHANGED <<now, cache>>

\* ... and from there to its return.
IsHostOnlineReturn ==
    /\ probe.pc = "get"
    /\ probe' = [probe EXCEPT !.pc = "done", !.answer = IsHostOnline(probe.entry, now)]
    /\ UNCHANGED <<now, cache>>

ForgetAnswer == IF probe.pc = "done" THEN NoProbe ELSE probe

\* markHostOffline(host): get the entry, set failCount + 1.
MarkHostOffline(host) ==
    /\ MarkHostOfflineGet(cache, host) < MaxFail
    /\ cache' = MarkHostOfflineSet(cache, host, MarkHostOfflineGet(cache, host), now)
    /\ probe' = ForgetAnswer
    /\ UNCHANGED now

LiveMarkHostOnline(host) ==
    /\ cache[OfflineKey(host)].present
    /\ cache' = MarkHostOnline(cache, host)
    /\ probe' = ForgetAnswer
    /\ UNCHANGED now

LiveTick ==
    /\ probe.pc # "get"
    /\ \E t \in Instants : t > now /\ now' = t
    /\ probe' = ForgetAnswer
    /\ UNCHANGED cache

NextLive ==
    \/ (\E h \in Hosts : IsHostOnlineCall(h)) /\ UNCHANGED <<fetchVars, authVars, commitVars, socketVars, eventVars, writeVars, resolveVars, traceVars, callVars>>
    \/ IsHostOnlineReturn /\ UNCHANGED <<fetchVars, authVars, commitVars, socketVars, eventVars, writeVars, resolveVars, traceVars, callVars>>
    \/ (\E h \in Hosts : MarkHostOffline(h)) /\ UNCHANGED <<fetchVars, authVars, commitVars, socketVars, eventVars, writeVars, resolveVars, traceVars, callVars>>
    \/ (\E h \in Hosts : LiveMarkHostOnline(h)) /\ UNCHANGED <<fetchVars, authVars, commitVars, socketVars, eventVars, writeVars, resolveVars, traceVars, callVars>>
    \/ LiveTick /\ UNCHANGED <<fetchVars, authVars, commitVars, socketVars, eventVars, writeVars, resolveVars, traceVars, callVars>>

SpecLive == Init /\ [][NextLive]_vars

\* ------------------------------------------------- the auth provider ---
InitProviders ==
    /\ now = 0
    /\ cache = [k \in Keys |-> NoEntry]
    /\ InitFetch
    /\ InitLive
    /\ InitAuthWith({"master", "sub", "guest"})
    /\ InitCommit
    /\ InitSocket
    /\ InitEvents({"InMemoryKVS"})
    /\ InitWrite
    /\ InitResolve
    /\ InitTrace
    /\ InitCalls

NextAuth ==
    \/ /\ \E c \in HeaderCalls, d \in AuthDomains : GetHeaders(c, d)
       /\ UNCHANGED <<now, cache, fetchVars, liveVars, commitVars, socketVars, eventVars, writeVars, resolveVars, traceVars, callVars>>
    \/ /\ \E c \in HeaderCalls, ok \in BOOLEAN : PassportResponds(c, ok)
       /\ UNCHANGED <<now, cache, fetchVars, liveVars, commitVars, socketVars, eventVars, writeVars, resolveVars, traceVars, callVars>>
    \/ /\ \E c \in HeaderCalls, p \in PassportValues \cup {Absent} : PassportJson(c, p)
       /\ UNCHANGED <<now, cache, fetchVars, liveVars, commitVars, socketVars, eventVars, writeVars, resolveVars, traceVars, callVars>>
    \/ /\ \E d \in AuthDomains : ExpireToken(d)
       /\ UNCHANGED <<now, cache, fetchVars, liveVars, commitVars, socketVars, eventVars, writeVars, resolveVars, traceVars, callVars>>

SpecAuth == InitProviders /\ [][NextAuth]_vars

\* --------------------------------------------------------- commit ------
NextCommit ==
    \/ /\ \E c \in CommitCalls, o \in Objs, h \in {"", "b.example"} : Commit(c, o, h)
       /\ UNCHANGED <<now, cache, fetchVars, liveVars, socketVars, eventVars, writeVars, resolveVars, traceVars, callVars>>
    \/ /\ \E c \in CommitCalls : CommitAfterHeaders(c)
       /\ UNCHANGED <<now, cache, fetchVars, liveVars, socketVars, eventVars, writeVars, resolveVars, traceVars, callVars>>
    \/ /\ \E c \in CommitCalls, ok \in BOOLEAN : CommitResponds(c, ok)
       /\ UNCHANGED <<now, cache, fetchVars, liveVars, socketVars, eventVars, writeVars, resolveVars, traceVars, callVars>>
    \/ /\ \E c \in HeaderCalls \ CommitCalls, d \in AuthDomains : GetHeaders(c, d)
       /\ UNCHANGED <<now, cache, fetchVars, liveVars, commitVars, socketVars, eventVars, writeVars, resolveVars, traceVars, callVars>>
    \/ /\ \E c \in HeaderCalls, ok \in BOOLEAN : PassportResponds(c, ok)
       /\ UNCHANGED <<now, cache, fetchVars, liveVars, commitVars, socketVars, eventVars, writeVars, resolveVars, traceVars, callVars>>
    \/ /\ \E c \in HeaderCalls, p \in PassportValues \cup {Absent} : PassportJson(c, p)
       /\ UNCHANGED <<now, cache, fetchVars, liveVars, commitVars, socketVars, eventVars, writeVars, resolveVars, traceVars, callVars>>

SpecCommit == InitProviders /\ [][NextCommit]_vars

\* commit while the default host is inside a back-off window: a request to it
\* has just failed with 502 (markHostOffline wrote failCount 1).
InitOffline ==
    /\ now = 0
    /\ cache = [k \in Keys |-> IF k = OfflineKey(defaultHost)
                               THEN KvsGet(MarkHostOfflineSet([j \in Keys |-> NoEntry],
                                                defaultHost, 0, 0), k)
                               ELSE NoEntry]
    /\ InitFetch
    /\ InitLive
    /\ InitAuth("master")
    /\ InitCommit
    /\ InitSocket
    /\ InitEvents({"InMemoryKVS"})
    /\ InitWrite
    /\ InitResolve
    /\ InitTrace
    /\ InitCalls

SpecCommitOffline == InitOffline /\ [][NextCommit]_vars

\* commit, with the event loop running every continuation that is ready: the
\* one of commit after getHeaders has settled.  Whether and when the network
\* answers is up to the network; commit and getPassport set no timer.
SpecCommitFair ==
    /\ Init
    /\ [][NextCommit]_vars
    /\ WF_vars(/\ \E c \in CommitCalls : CommitAfterHeaders(c)
               /\ UNCHANGED <<now, cache, fetchVars, liveVars, socketVars, eventVars, writeVars, resolveVars, traceVars, callVars>>)

\* --------------------------------------------------------- socket ------
NextSocket ==
    \/ /\ \E i \in 1..Len(conns) : WsOpen(i)
       /\ UNCHANGED <<now, cache, fetchVars, liveVars, authVars, commitVars, eventVars, writeVars, resolveVars, traceVars, callVars>>
    \/ /\ \E i \in 1..Len(conns) : WsClose(i)
       /\ UNCHANGED <<now, cache, fetchVars, liveVars, authVars, commitVars, eventVars, writeVars, resolveVars, traceVars, callVars>>
    \/ /\ Heartbeat
       /\ UNCHANGED <<now, cache, fetchVars, liveVars, authVars, commitVars, eventVars, writeVars, resolveVars, traceVars, callVars>>
    \/ /\ CheckConnection
       /\ UNCHANGED <<now, cache, fetchVars, liveVars, authVars, commitVars, eventVars, writeVars, resolveVars, traceVars, callVars>>
    \/ /\ ReconnectTimeout
       /\ UNCHANGED <<now, cache, fetchVars, liveVars, authVars, commitVars, eventVars, writeVars, resolveVars, traceVars, callVars>>
    \/ /\ \E ts \in SUBSET Timelines \ {{}}, cb \in Callbacks : Listen(ts, cb)
       /\ UNCHANGED <<now, cache, fetchVars, liveVars, authVars, commitVars, eventVars, writeVars, resolveVars, traceVars, callVars>>
    \/ /\ \E ts \in SUBSET Timelines \ {{}}, cb \in Callbacks : Unlisten(ts, cb)
       /\ UNCHANGED <<now, cache, fetchVars, liveVars, authVars, commitVars, eventVars, writeVars, resolveVars, traceVars, callVars>>

SpecSocket == Init /\ [][NextSocket]_vars

\* ----------------------------------------------------- reconnection -----
NextReconnect ==
    \/ /\ \E i \in 1..Len(conns) : WsOpen(i)
       /\ UNCHANGED <<now, cache, fetchVars, liveVars, authVars, commitVars, eventVars, writeVars, resolveVars, traceVars, callVars>>
    \/ /\ \E i \in 1..Len(conns) : WsClose(i)
       /\ UNCHANGED <<now, cache, fetchVars, liveVars, authVars, commitVars, eventVars, writeVars, resolveVars, traceVars, callVars>>
    \/ /\ Forget
       /\ UNCHANGED <<now, cache, fetchVars, liveVars, authVars, commitVars, eventVars, writeVars, resolveVars, traceVars, callVars>>
    \/ /\ CheckConnection
       /\ UNCHANGED <<now, cache, fetchVars, liveVars, authVars, commitVars, eventVars, writeVars, resolveVars, traceVars, callVars>>
    \/ /\ ReconnectTimeout
       /\ UNCHANGED <<now, cache, fetchVars, liveVars, authVars, commitVars, eventVars, writeVars, resolveVars, traceVars, callVars>>

SpecReconnect == Init /\ [][NextReconnect]_vars

\* --------------------------------------------------- socket events -----
InitSockets ==
    /\ now = 0
    /\ cache = [k \in Keys |-> NoEntry]
    /\ InitFetch
    /\ InitLive
    /\ InitAuth("master")
    /\ InitCommit
    /\ InitSocket
    /\ InitEvents(KvsKinds)
    /\ InitWrite
    /\ InitResolve
    /\ InitTrace
    /\ InitCalls

NextEvents ==
    \/ /\ \E f \in EventFrames : OnMessage(f)
       /\ UNCHANGED <<fetchVars, liveVars, authVars, commitVars, socketVars, writeVars, resolveVars, traceVars, callVars>>
    \/ /\ \E h \in handlers : AfterCacheSet(h)
       /\ UNCHANGED <<fetchVars, liveVars, authVars, commitVars, socketVars, writeVars, resolveVars, traceVars, callVars>>
    \/ /\ \E op \in kvsOps : KvsDeleteDone(op)
       /\ UNCHANGED <<fetchVars, liveVars, authVars, commitVars, socketVars, writeVars, resolveVars, traceVars, callVars>>
    \/ /\ \E t \in Timelines, cb \in Callbacks : Listen({t}, cb)
       /\ UNCHANGED <<now, cache, fetchVars, liveVars, authVars, commitVars, eventVars, writeVars, resolveVars, traceVars, callVars>>

SpecEvents == InitSockets /\ [][NextEvents]_vars

\* --------------------------------------------------- write helpers -----
NextWrite ==
    \/ /\ \E c \in Calls : GetProfile(c, "default", defaultCacheTTL)
       /\ UNCHANGED <<liveVars, authVars, commitVars, socketVars, eventVars, resolveVars, traceVars, callVars>>
    \/ /\ \E c \in Calls : AfterCacheGet(c)
       /\ UNCHANGED <<liveVars, authVars, commitVars, socketVars, eventVars, writeVars, resolveVars, traceVars, callVars>>
    \/ /\ \E c \in Calls : AfterIsHostOnline(c)
       /\ UNCHANGED <<liveVars, authVars, commitVars, socketVars, eventVars, writeVars, resolveVars, traceVars, callVars>>
    \/ /\ \E c \in Calls : AfterGetHeaders(c)
       /\ UNCHANGED <<liveVars, authVars, commitVars, socketVars, eventVars, writeVars, resolveVars, traceVars, callVars>>
    \/ /\ \E c \in Calls, r \in Responses : RespondProfile(c, r)
       /\ UNCHANGED <<liveVars, authVars, commitVars, socketVars, eventVars, resolveVars, traceVars, callVars>>
    \/ /\ \E c \in Calls : AfterMarkHostOffline(c)
       /\ UNCHANGED <<liveVars, authVars, commitVars, socketVars, eventVars, writeVars, resolveVars, traceVars, callVars>>
    \/ /\ \E c \in Calls : AfterJson(c)
       /\ UNCHANGED <<liveVars, authVars, commitVars, socketVars, eventVars, writeVars, resolveVars, traceVars, callVars>>
    \/ /\ \E c \in Calls : Finally(c)
       /\ UNCHANGED <<liveVars, authVars, commitVars, socketVars, eventVars, writeVars, resolveVars, traceVars, callVars>>
    \/ /\ UpsertApplied
       /\ UNCHANGED <<liveVars, authVars, commitVars, socketVars, eventVars, resolveVars, traceVars, callVars>>
    \/ /\ UpsertProfileReturns
       /\ UNCHANGED <<liveVars, authVars, commitVars, socketVars, eventVars, resolveVars, traceVars, callVars>>
    \/ /\ Tick
       /\ UNCHANGED <<liveVars, authVars, commitVars, socketVars, eventVars, writeVars, resolveVars, traceVars, callVars>>

SpecWrite == Init /\ [][NextWrite]_vars

\* ------------------------------------- getMessage and socket events ----
NextInvalidate ==
    \/ /\ \E c \in Calls : GetMessage(c, "m1", "", defaultCacheTTL)
       /\ UNCHANGED <<liveVars, authVars, commitVars, socketVars, eventVars, writeVars, resolveVars, traceVars, callVars>>
    \/ /\ \E c \in Calls : AfterCacheGet(c)
       /\ UNCHANGED <<liveVars, authVars, commitVars, socketVars, eventVars, writeVars, resolveVars, traceVars, callVars>>
    \/ /\ \E c \in Calls : AfterIsHostOnline(c)
       /\ UNCHANGED <<liveVars, authVars, commitVars, socketVars, eventVars, writeVars, resolveVars, traceVars, callVars>>
    \/ /\ \E c \in Calls : AfterGetHeaders(c)
       /\ UNCHANGED <<liveVars, authVars, commitVars, socketVars, eventVars, writeVars, resolveVars, traceVars, callVars>>
    \/ /\ \E c \in Calls, r \in Responses : Respond(c, r)
       /\ UNCHANGED <<liveVars, authVars, commitVars, socketVars, eventVars, writeVars, resolveVars, traceVars, callVars>>
    \/ /\ \E c \in Calls : AfterMarkHostOffline(c)
       /\ UNCHANGED <<liveVars, authVars, commitVars, socketVars, eventVars, writeVars, resolveVars, traceVars, callVars>>
    \/ /\ \E c \in Calls : AfterJson(c)
       /\ UNCHANGED <<liveVars, authVars, commitVars, socketVars, eventVars, writeVars, resolveVars, traceVars, callVars>>
    \/ /\ \E c \in Calls : Finally(c)
       /\ UNCHANGED <<liveVars, authVars, commitVars, socketVars, eventVars, writeVars, resolveVars, traceVars, callVars>>
    \/ /\ \E f \in EventFrames :
            f.timeline = "t1" /\ f.value = 1 /\ MicrotasksDone /\ OnMessage(f)
       /\ UNCHANGED <<fetchVars, liveVars, authVars, commitVars, socketVars, writeVars, resolveVars, traceVars, callVars>>
    \/ /\ \E h \in handlers : AfterCacheSet(h)
       /\ UNCHANGED <<fetchVars, liveVars, authVars, commitVars, socketVars, writeVars, resolveVars, traceVars, callVars>>

SpecInvalidate == Init /\ [][NextInvalidate]_vars

\* ----------------------------------------------- resolveTimelineHost ----
NextResolve ==
    \/ /\ \E c \in ResolveCalls, t \in TimelineIDs : ResolveTimelineHost(c, t)
       /\ UNCHANGED <<now, cache, fetchVars, liveVars, authVars, commitVars, socketVars, eventVars, writeVars, traceVars, callVars>>
    \/ /\ \E c \in ResolveCalls, a \in LookupAnswers : ResolveDomainSettles(c, a)
       /\ UNCHANGED <<now, cache, fetchVars, liveVars, authVars, commitVars, socketVars, eventVars, writeVars, traceVars, callVars>>

SpecResolve == Init /\ [][NextResolve]_vars

\* ------------------------------------------- responses and liveness ----
\* Caller 1 makes calls of the three shapes, caller 2 credentialed calls.
NextOutcome ==
    \/ /\ FetchWithCache(1, EntityKey("e1"), "", "default", defaultCacheTTL, "auth")
       /\ UNCHANGED <<liveVars, authVars, commitVars, socketVars, eventVars, writeVars, resolveVars, traceVars, callVars>>
    \/ /\ \E c \in Calls, h \in Hosts : FetchWithCredential(c, h)
       /\ UNCHANGED <<liveVars, authVars, commitVars, socketVars, eventVars, writeVars, resolveVars, traceVars, callVars>>
    \/ /\ \E h \in Hosts : FetchWithCredentialBlob(1, h)
       /\ UNCHANGED <<liveVars, authVars, commitVars, socketVars, eventVars, writeVars, resolveVars, traceVars, callVars>>
    \/ /\ \E c \in Calls : AfterCacheGet(c)
       /\ UNCHANGED <<liveVars, authVars, commitVars, socketVars, eventVars, writeVars, resolveVars, traceVars, callVars>>
    \/ /\ \E c \in Calls : AfterIsHostOnline(c)
       /\ UNCHANGED <<liveVars, authVars, commitVars, socketVars, eventVars, writeVars, resolveVars, traceVars, callVars>>
    \/ /\ \E c \in Calls : AfterGetHeaders(c)
       /\ UNCHANGED <<liveVars, authVars, commitVars, socketVars, eventVars, writeVars, resolveVars, traceVars, callVars>>
    \/ /\ \E c \in Calls, r \in Responses : RespondTo(c, r)
       /\ UNCHANGED <<liveVars, authVars, commitVars, socketVars, eventVars, writeVars, resolveVars, callVars>>
    \/ /\ \E c \in Calls : AfterMarkHostOffline(c)
       /\ UNCHANGED <<liveVars, authVars, commitVars, socketVars, eventVars, writeVars, resolveVars, traceVars, callVars>>
    \/ /\ \E c \in Calls : AfterJson(c)
       /\ UNCHANGED <<liveVars, authVars, commitVars, socketVars, eventVars, writeVars, resolveVars, traceVars, callVars>>
    \/ /\ \E c \in Calls : Finally(c)
       /\ UNCHANGED <<liveVars, authVars, commitVars, socketVars, eventVars, writeVars, resolveVars, traceVars, callVars>>
    \/ /\ Tick
       /\ UNCHANGED <<liveVars, authVars, commitVars, socketVars, eventVars, writeVars, resolveVars, traceVars, callVars>>

\* with InMemoryKVS
SpecOutcome == Init /\ [][NextOutcome]_vars

\* with InMemoryKVS or IndexedDBKVS
SpecFailCount == InitSockets /\ [][NextOutcome]_vars

\* ------------------------------------------------ a Guest provider ----
InitGuest ==
    /\ now = 0
    /\ cache = [k \in Keys |-> NoEntry]
    /\ InitFetch
    /\ InitLive
    /\ InitAuth("guest")
    /\ InitCommit
    /\ InitSocket
    /\ InitEvents({"InMemoryKVS"})
    /\ InitWrite
    /\ InitResolve
    /\ InitTrace
    /\ InitCalls

NextGuest ==
    \/ /\ CreateAssociation(1)
       /\ UNCHANGED <<liveVars, socketVars, eventVars, resolveVars, traceVars, callVars>>
    \/ /\ CreateAssociationResolved
       /\ UNCHANGED <<liveVars, socketVars, eventVars, resolveVars, traceVars, callVars>>
    \/ /\ \E o \in Objs : CreateMessage(o)
       /\ UNCHANGED <<liveVars, socketVars, eventVars, resolveVars, traceVars, callVars>>
    \/ /\ \E c \in CommitCalls, h \in {"", "b.example"} : Commit(c, AssociationObj, h)
       /\ UNCHANGED <<now, cache, fetchVars, liveVars, socketVars, eventVars, writeVars, resolveVars, traceVars, callVars>>
    \/ /\ \E d \in AuthDomains : GetHeaders(1, d)
       /\ UNCHANGED <<now, cache, fetchVars, liveVars, commitVars, socketVars, eventVars, writeVars, resolveVars, traceVars, callVars>>
    \/ /\ \E c \in Calls : AfterCacheGet(c)
       /\ UNCHANGED <<liveVars, authVars, commitVars, socketVars, eventVars, writeVars, resolveVars, traceVars, callVars>>
    \/ /\ \E c \in Calls : AfterIsHostOnline(c)
       /\ UNCHANGED <<liveVars, authVars, commitVars, socketVars, eventVars, writeVars, resolveVars, traceVars, callVars>>
    \/ /\ \E c \in Calls : AfterGetHeaders(c)
       /\ UNCHANGED <<liveVars, authVars, commitVars, socketVars, eventVars, writeVars, resolveVars, traceVars, callVars>>
    \/ /\ \E c \in Calls, r \in Responses : Respond(c, r)
       /\ UNCHANGED <<liveVars, authVars, commitVars, socketVars, eventVars, writeVars, resolveVars, traceVars, callVars>>
    \/ /\ \E c \in Calls : AfterMarkHostOffline(c)
       /\ UNCHANGED <<liveVars, authVars, commitVars, socketVars, eventVars, writeVars, resolveVars, traceVars, callVars>>
    \/ /\ \E c \in Calls : AfterJson(c)
       /\ UNCHANGED <<liveVars, authVars, commitVars, socketVars, eventVars, writeVars, resolveVars, traceVars, callVars>>
    \/ /\ \E c \in Calls : Finally(c)
       /\ UNCHANGED <<liveVars, authVars, commitVars, socketVars, eventVars, writeVars, resolveVars, traceVars, callVars>>
    \/ /\ Tick
       /\ UNCHANGED <<liveVars, authVars, commitVars, socketVars, eventVars, writeVars, resolveVars, traceVars, callVars>>

SpecGuest == InitGuest /\ [][NextGuest]_vars

\* --------------------------------------- listen, unlisten, heartbeat ----
\* The calls on the connection the constructor made, while it is connecting,
\* open and closed.
NextListen ==
    \/ /\ \E i \in 1..Len(conns) : WsOpen(i)
       /\ UNCHANGED <<now, cache, fetchVars, liveVars, authVars, commitVars, eventVars, writeVars, resolveVars, traceVars, callVars>>
    \/ /\ \E i \in 1..Len(conns) : WsClose(i)
       /\ UNCHANGED <<now, cache, fetchVars, liveVars, authVars, commitVars, eventVars, writeVars, resolveVars, traceVars, callVars>>
    \/ /\ \E ts \in SUBSET Timelines, cb \in Callbacks : ListenCall(ts, cb)
       /\ UNCHANGED <<now, cache, fetchVars, liveVars, authVars, commitVars, eventVars, writeVars, resolveVars, traceVars>>
    \/ /\ \E ts \in SUBSET Timelines, cb \in Callbacks : UnlistenCall(ts, cb)
       /\ UNCHANGED <<now, cache, fetchVars, liveVars, authVars, commitVars, eventVars, writeVars, resolveVars, traceVars>>
    \/ /\ HeartbeatTick
       /\ UNCHANGED <<now, cache, fetchVars, liveVars, authVars, commitVars, eventVars, writeVars, resolveVars, traceVars>>

SpecListen == Init /\ [][NextListen]_vars

\* ---------------------------------------------------------- waitOpen ----
\* A waitOpen call while the connection opens, closes and is replaced.  The
\* interval timer of a pending call fires again and again.
NextWait ==
    \/ /\ \E i \in 1..Len(conns) : WsOpen(i)
       /\ UNCHANGED <<now, cache, fetchVars, liveVars, authVars, commitVars, eventVars, writeVars, resolveVars, traceVars, callVars>>
    \/ /\ \E i \in 1..Len(conns) : WsClose(i)
       /\ UNCHANGED <<now, cache, fetchVars, liveVars, authVars, commitVars, eventVars, writeVars, resolveVars, traceVars, callVars>>
    \/ /\ Forget
       /\ UNCHANGED <<now, cache, fetchVars, liveVars, authVars, commitVars, eventVars, writeVars, resolveVars, traceVars, callVars>>
    \/ /\ CheckConnection
       /\ UNCHANGED <<now, cache, fetchVars, liveVars, authVars, commitVars, eventVars, writeVars, resolveVars, traceVars, callVars>>
    \/ /\ ReconnectTimeout
       /\ UNCHANGED <<now, cache, fetchVars, liveVars, authVars, commitVars, eventVars, writeVars, resolveVars, traceVars, callVars>>
    \/ /\ WaitOpen
       /\ UNCHANGED <<now, cache, fetchVars, liveVars, authVars, commitVars, eventVars, writeVars, resolveVars, traceVars, socketVars>>
    \/ /\ WaitOpenPoll
       /\ UNCHANGED <<now, cache, fetchVars, liveVars, authVars, commitVars, eventVars, writeVars, resolveVars, traceVars, socketVars>>

SpecWait ==
    /\ Init
    /\ [][NextWait]_vars
    /\ WF_vars(WaitOpenPoll /\ UNCHANGED <<now, cache, fetchVars, liveVars, authVars, commitVars, eventVars, writeVars, resolveVars, traceVars, socketVars>>)

\* upsertProfile on an Api built with either KVS
NextWriteDB ==
    \/ /\ \E c \in Calls : GetProfile(c, "default", defaultCacheTTL)
       /\ UNCHANGED <<liveVars, authVars, commitVars, socketVars, eventVars, resolveVars, traceVars, callVars>>
    \/ /\ \E c \in Calls : AfterCacheGet(c)
       /\ UNCHANGED <<liveVars, authVars, commitVars, socketVars, eventVars, writeVars, resolveVars, traceVars, callVars>>
    \/ /\ \E c \in Calls : AfterIsHostOnline(c)
       /\ UNCHANGED <<liveVars, authVars, commitVars, socketVars, eventVars, writeVars, resolveVars, traceVars, callVars>>
    \/ /\ \E c \in Calls : AfterGetHeaders(c)
       /\ UNCHANGED <<liveVars, authVars, commitVars, socketVars, eventVars, writeVars, resolveVars, traceVars, callVars>>
    \/ /\ \E c \in Calls, r \in Responses : RespondProfile(c, r)
       /\ UNCHANGED <<liveVars, authVars, commitVars, socketVars, eventVars, resolveVars, traceVars, callVars>>
    \/ /\ \E c \in Calls : AfterMarkHostOffline(c)
       /\ UNCHANGED <<liveVars, authVars, commitVars, socketVars, eventVars, writeVars, resolveVars, traceVars, callVars>>
    \/ /\ \E c \in Calls : AfterJson(c)
       /\ UNCHANGED <<liveVars, authVars, commitVars, socketVars, eventVars, writeVars, resolveVars, traceVars, callVars>>
    \/ /\ \E c \in Calls : Finally(c)
       /\ UNCHANGED <<liveVars, authVars, commitVars, socketVars, eventVars, writeVars, resolveVars, traceVars, callVars>>
    \/ /\ UpsertApplied
       /\ UNCHANGED <<liveVars, authVars, commitVars, socketVars, eventVars, resolveVars, traceVars, callVars>>
    \/ /\ UpsertProfileReturns
       /\ UNCHANGED <<liveVars, authVars, commitVars, socketVars, eventVars, resolveVars, traceVars, callVars>>
    \/ /\ Tick
       /\ UNCHANGED <<liveVars, authVars, commitVars, socketVars, eventVars, writeVars, resolveVars, traceVars, callVars>>
    \/ /\ UpsertDeleteDone
       /\ UNCHANGED <<liveVars, authVars, commitVars, socketVars, eventVars, resolveVars, traceVars, callVars>>

SpecWriteDB == InitSockets /\ [][NextWriteDB]_vars

\* ------------------------------------------------- TimelineReader ------
\* one reader on one socket: its calls, the responses to its requests, and
\* the events of the socket
NextReader ==
    \/ /\ WsOpen(1)
       /\ UNCHANGED <<now, cache, fetchVars, liveVars, authVars, commitVars, eventVars, writeVars, resolveVars, traceVars, callVars>>
    \/ /\ \E ts \in (SUBSET Timelines) \ {{}} : ReaderListen(ts)
       /\ UNCHANGED <<now, cache, fetchVars, liveVars, authVars, commitVars, eventVars, writeVars, resolveVars, traceVars>>
    \/ /\ \E r \in TimelineResponses : ReaderListenResolved(r)
       /\ UNCHANGED <<now, cache, fetchVars, liveVars, authVars, commitVars, eventVars, writeVars, resolveVars, traceVars>>
    \/ /\ ReaderListenRejected
       /\ UNCHANGED <<now, cache, fetchVars, liveVars, authVars, commitVars, eventVars, writeVars, resolveVars, traceVars>>
    \/ /\ \E c \in ReadMoreCalls : ReaderReadMore(c)
       /\ UNCHANGED <<now, cache, fetchVars, liveVars, authVars, commitVars, eventVars, writeVars, resolveVars, traceVars>>
    \/ /\ \E c \in ReadMoreCalls, r \in TimelineResponses : ReaderReadMoreResolved(c, r)
       /\ UNCHANGED <<now, cache, fetchVars, liveVars, authVars, commitVars, eventVars, writeVars, resolveVars, traceVars>>
    \/ /\ ReaderReload
       /\ UNCHANGED <<now, cache, fetchVars, liveVars, authVars, commitVars, eventVars, writeVars, resolveVars, traceVars>>
    \/ /\ \E r \in TimelineResponses : ReaderReloadResolved(r)
       /\ UNCHANGED <<now, cache, fetchVars, liveVars, authVars, commitVars, eventVars, writeVars, resolveVars, traceVars>>
    \/ /\ ReaderDispose
       /\ UNCHANGED <<now, cache, fetchVars, liveVars, authVars, commitVars, eventVars, writeVars, resolveVars, traceVars>>
    \/ /\ \E e \in ReaderEvents : ReaderEvent(e)
       /\ UNCHANGED <<now, cache, fetchVars, liveVars, authVars, commitVars, eventVars, writeVars, resolveVars, traceVars>>

SpecReader == Init /\ [][NextReader]_vars

\* ================================================================ claims =
\* The back-off window of a liveness entry as the contract states it:
\* the entry exists and age < 500 ms * 1.5^min(failCount, 15), that is
\* age * 2^n < 500 * 3^n (both sides divided by 4 from n = 2 on).
InBackoffWindow(entry, t) ==
    /\ entry.present
    /\ LET n == IF entry.data > 15 THEN 15 ELSE entry.data
           age == t - entry.timestamp
       IN  IF n < 2 THEN age * (2 ^ n) < 500 * (3 ^ n)
           ELSE age * (2 ^ (n - 2)) < 125 * (3 ^ n)

Pending(k) ==
    {c \in Calls : calls[c].kind = "cache" /\ calls[c].key = k /\ reqs[c].pc = "pending"}

\* C1: for every cache key at most one network request is outstanding at
\* any instant, whatever the interleaving of concurrent fetchWithCache calls.
C1_OneRequestPerKey == \A k \in CacheKeys : Cardinality(Pending(k)) <= 1

\* C3: a cached read that finds the negative entry of a 404 less than
\* 300 000 ms old ends in NotFound (null) and issues no network request.
C3_NegativeFor300s ==
    [][\A c \in Calls :
        ( /\ calls[c].pc = "cacheGet"
          /\ calls[c].opt # "best-effort"
          /\ calls[c].entry.present /\ calls[c].entry.data = Null
          /\ now - calls[c].entry.timestamp < 300000
          /\ calls'[c].pc # "cacheGet" )
        => (calls'[c].pc = "done" /\ calls'[c].res = "null")]_vars

\* C5 as stated: every call that starts while the back-off window of its
\* host is running fails with DomainOfflineError; in particular a
\* fetchWithCache call is not answered with a value.
C5_EveryCallFailsOffline ==
    [][\A c \in Calls :
        ( /\ calls[c].pc = "cacheGet"
          /\ InBackoffWindow(cache[OfflineKey(calls[c].host)], now)
          /\ calls'[c].pc # "cacheGet" )
        => ( /\ ~calls'[c].swr
             /\ calls'[c].pc = "done" => calls'[c].res = "DomainOffline" )]_vars

\* C5 amended: a call whose liveness check reads an entry inside its window
\* ends there without a request (DomainOfflineError, or nothing more after a
\* stale-while-revalidate return); a call whose check reads no entry or an
\* expired one goes on to getHeaders, to the network or to the request in
\* flight.
C5_LivenessGate ==
    [][\A c \in Calls :
        (calls[c].pc = "isHostOnline" /\ calls'[c].pc # "isHostOnline")
        => IF InBackoffWindow(calls[c].live, now)
           THEN /\ calls'[c].pc = "done" /\ calls'[c].via = "gate"
                /\ (calls[c].swr \/ calls'[c].res = "DomainOffline")
                /\ reqs' = reqs /\ inFlightRequests' = inFlightRequests
           ELSE calls'[c].pc \in {"getHeaders", "await"}]_vars

\* A credentialed call and a cached read have both been refused by the gate
\* while the window opened by one failure (failCount 1) was running.
C5_Witness ==
    /\ calls[1].pc = "done" /\ calls[1].via = "gate" /\ calls[1].kind = "json"
    /\ calls[1].res = "DomainOffline"
    /\ calls[2].pc = "done" /\ calls[2].via = "gate" /\ calls[2].kind = "cache"
    /\ calls[2].res = "DomainOffline"
    /\ cache[OfflineKey(defaultHost)].data = 1
    /\ InBackoffWindow(cache[OfflineKey(defaultHost)], now)
    /\ now > cache[OfflineKey(defaultHost)].timestamp

StalePositive(call, t) ==
    /\ call.entry.present /\ call.entry.data # Null
    /\ t - call.entry.timestamp >= call.ttl

\* C7 as stated: a call that returned a stale value also starts or joins a
\* request for the key, whatever the liveness state of the host.
C7_StaleAlwaysRevalidates ==
    [][\A c \in Calls :
        (calls[c].swr /\ calls[c].pc = "isHostOnline" /\ calls'[c].pc # "isHostOnline")
        => calls'[c].pc \in {"getHeaders", "await"}]_vars

\* C7 amended: a stale positive value is returned only together with a
\* launched fetchNetwork, and that one issues or joins a request for the key
\* unless its liveness check finds the host inside its back-off window.
C7_StaleLaunchesRevalidation ==
    [][\A c \in Calls :
        /\ ( /\ calls[c].pc = "cacheGet" /\ calls'[c].pc # "cacheGet"
             /\ StalePositive(calls[c], now) /\ calls[c].opt # "force-cache" )
           => ( /\ calls'[c].pc = "isHostOnline" /\ calls'[c].swr
                /\ calls'[c].res = "ok" /\ calls'[c].val = calls[c].entry.data )
        /\ ( /\ calls[c].pc = "cacheGet" /\ calls'[c].pc = "done"
             /\ calls'[c].res = "ok" )
           => ~StalePositive(calls[c], now)
        /\ (calls[c].swr /\ calls[c].pc = "isHostOnline" /\ calls'[c].pc # "isHostOnline")
           => ( \/ InBackoffWindow(calls[c].live, now)
                \/ (calls'[c].pc = "await" /\ reqs'[calls'[c].waitOn].pc # "none")
                \/ calls'[c].pc = "getHeaders" )
        /\ (calls[c].swr /\ calls[c].pc = "getHeaders" /\ calls'[c].pc # "getHeaders")
           => (reqs'[c].pc = "pending" /\ inFlightRequests'[calls[c].key] = c)]_vars

\* A call has returned the stale value and its revalidating request is out.
C7_Witness ==
    \E c \in Calls : calls[c].swr /\ calls[c].pc = "await" /\ reqs[c].pc = "pending"

\* C6 as stated: when the background fetch of getMessage completes, its
\* value is written to message:m1.
C6_BackgroundValueWritten ==
    [][\A c \in Calls :
        ( /\ calls[c].key \in MessageKeys /\ calls[c].swr
          /\ reqs[c].pc = "json" /\ reqs[c].app = "ok" /\ reqs'[c].pc # "json" )
        => ( /\ cache'[calls[c].key].present
             /\ cache'[calls[c].key].data = reqs[c].content )]_vars

\* C6 amended: getMessage on a stale positive entry returns the cached value
\* before the network and launches the background fetch, and the completion
\* of a getMessage fetch leaves message:m1 as it was (data and timestamp).
C6_MessageNotRewritten ==
    [][\A c \in Calls :
        /\ ( /\ calls[c].key \in MessageKeys
             /\ calls[c].pc = "cacheGet" /\ calls'[c].pc # "cacheGet"
             /\ StalePositive(calls[c], now) )
           => ( /\ calls'[c].pc = "isHostOnline" /\ calls'[c].swr
                /\ calls'[c].res = "ok" /\ calls'[c].val = calls[c].entry.data )
        /\ ( /\ calls[c].key \in MessageKeys
             /\ reqs[c].pc = "json" /\ reqs'[c].pc # "json" )
           => cache'[calls[c].key] = cache[calls[c].key]]_vars

\* The background fetch of a getMessage that returned {v:1} from a stale
\* entry has completed with another value and message:m1 still holds {v:1}.
C6_Witness ==
    \E c \in Calls :
        /\ calls[c].key \in MessageKeys /\ calls[c].swr
        /\ reqs[c].pc = "finally" /\ reqs[c].outcome = "ok"
        /\ reqs[c].val # calls[c].val
        /\ cache[calls[c].key].present
        /\ cache[calls[c].key].data = calls[c].val

\* C4: isHostOnline(h) answers false exactly when the entry offline:h exists
\* and its age is less than 500 ms * 1.5^min(failCount, 15); it answers true
\* when the entry is absent or the window has elapsed.
C4_OfflineExactlyInsideWindow ==
    probe.pc = "done" => (probe.answer = FALSE <=> InBackoffWindow(probe.entry, now))

\* isHostOnline has answered false for an entry with failCount above the
\* cap, in the last millisecond of the longest window (218 946.9 ms).
C4_Witness ==
    /\ probe.pc = "done" /\ probe.answer = FALSE
    /\ probe.entry.data > 15
    /\ now - probe.entry.timestamp = WindowFloor(15)

PassportRequests == {c \in HeaderCalls : authCalls[c].pc \in {"fetch", "json"}}

\* C2: getHeaders calls made before any passport is available cause one
\* passport request between them: at most one request to the passport
\* endpoint is outstanding while the provider holds no passport.
C2_OnePassportRequest ==
    passport = Absent => Cardinality(PassportRequests) <= 1

\* C8: every document commit sends has signer equal to the provider's CCID,
\* keyID equal to the CKID under a sub-key provider, and no keyID field when
\* the provider has no CKID, whatever object was passed to commit.
C8_SignerAndKeyID ==
    posted.sent =>
        /\ posted.document.signer = provider.ccid
        /\ provider.kind = "sub" =>
                ("keyID" \in DOMAIN posted.document /\ posted.document.keyID = provider.ckid)
        /\ provider.ckid = Absent => "keyID" \notin DOMAIN posted.document

\* C9: the first client-to-server frame sent on the connection the socket
\* holds is a listen frame whose channels are exactly the keys of
\* subscriptions at that moment, and that connection gets the frame in the
\* step in which it opens, whatever the order of connection attempts,
\* timers, open and close events.
C9_FirstFrameIsListen ==
    [][/\ (sent.first = NoFrame /\ sent'.first # NoFrame)
          => ( /\ sent'.first = ListenFrame(DOMAIN subscriptions')
               /\ conns'[ws'] = "OPEN" )
       /\ (ws' = ws /\ conns[ws] # "OPEN" /\ conns'[ws] = "OPEN")
          => sent'.first = ListenFrame(DOMAIN subscriptions)]_vars

\* After a close, a connection made by reconnect() has opened and its first
\* frame announced the two timelines subscribed to meanwhile.
C9_Witness ==
    /\ Len(conns) >= 2
    /\ conns[1] = "CLOSED"
    /\ conns[ws] = "OPEN"
    /\ sent.first = ListenFrame({"t1", "t2"})
    /\ sent.last = sent.first

\* C10: while the connection the socket holds is open, the keys of
\* subscriptions are the channels of the last listen or unlisten frame sent
\* on it.
C10_KeysAreLastAnnounced ==
    conns[ws] = "OPEN" =>
        /\ sent.last # NoFrame
        /\ sent.last.channels = DOMAIN subscriptions

\* A reopened connection whose last frame is an unlisten frame: the keys
\* changed while no connection was open and again after the reopening.
C10_Witness ==
    /\ Len(conns) >= 2
    /\ conns[ws] = "OPEN"
    /\ sent.first = ListenFrame({"t1", "t2"})
    /\ sent.last = UnlistenFrame({"t2"})
    /\ DOMAIN subscriptions = {"t2"}

\* C11: on every timeline the listeners are called in the order the frames
\* arrived: an event handed to distribute after another one of the same
\* timeline arrived after it.
C11_DispatchInArrivalOrder ==
    \A i, j \in 1..Len(delivered) :
        (i < j /\ delivered[i].timeline = delivered[j].timeline)
        => delivered[i].seq < delivered[j].seq

\* C12: once upsertProfile has settled, a read of profile:p1 that starts
\* afterwards does not return the value the server held before the commit.
C12_ReadsAfterCommitAreFresh ==
    \A c \in upsert.late :
        (calls[c].res = "ok" /\ (calls[c].pc = "done" \/ calls[c].swr))
        => calls[c].val # PreCommit

\* The frames C13 names: an association, a delete of a message, a delete of
\* an association that carries its resource.
TargetsMessage(e) ==
    \/ e.type = "association"
    \/ e.type = "delete-m"
    \/ e.type = "delete-a" /\ e.resource

IsBackoffDelay(d, n) ==
    LET m == IF n < 15 THEN n ELSE 15
    IN  IF m = 1 THEN d = 750
        ELSE /\ d * (2 ^ (m - 2)) <= 125 * (3 ^ m)
             /\ 125 * (3 ^ m) < (d + 1) * (2 ^ (m - 2))

\* C14: every reconnect attempt sets its timer to 500 ms x 1.5^min(failcount, 15)
\* with failcount one more than at the attempt before, so within a cycle the
\* delay never decreases; failcount falls only when reconnect() finds the
\* socket open (to 0) or when checkConnection starts a new cycle.
C14_BackoffNeverDecreases ==
    [][ /\ Len(conns') > Len(conns) =>
            /\ reconnectTimer'
            /\ IsBackoffDelay(reconnectDelay', failcount')
            /\ reconnecting =>
                  /\ failcount' = failcount + 1
                  /\ reconnectDelay' >= reconnectDelay
        /\ failcount' # failcount =>
            \/ failcount' = failcount + 1 /\ reconnecting
            \/ failcount' = 0 /\ conns[ws] = "OPEN" /\ ~reconnecting'
            \/ failcount' = 1 /\ ~reconnecting /\ reconnecting'
      ]_vars

\* The sixteenth attempt of one cycle: the exponent has reached its cap.
C14_Witness ==
    /\ reconnecting
    /\ reconnectTimer
    /\ failcount = 16
    /\ reconnectDelay = 218946

\* The part of an id after its '@', for an id with one '@'.
Suffix(id) == SubSeq(id, 3, Len(id))
OneAt(id) == Len(id) >= 2 /\ id[2] = At /\ \A i \in 3..Len(id) : id[i] # At
IsIdentifier(str, prefix) ==
    /\ str # <<>> /\ str[1].prefix = prefix
    /\ \A i \in 1..Len(str) : ~str[i].dotted
    /\ StrLength(str) = 42

\* C15: resolveTimelineHost(id) returns the default host for an id without
\* '@'; returns the suffix as it is when the suffix is neither a CCID nor a
\* CSID; for a CCID (CSID) suffix looks up the entity (domain record) on the
\* default host and returns its domain (fqdn) field, and fails when the lookup
\* gives no domain.
C15_ResolveTimelineHost ==
    \A c \in ResolveCalls :
    resolving[c].pc = "done" =>
        LET id == resolving[c].timeline
            r == resolving[c]
        IN  /\ (\A i \in 1..Len(id) : id[i] # At)
                => r.res = "ok" /\ r.host = DefaultHostStr
            /\ (OneAt(id) /\ ~IsIdentifier(Suffix(id), "con1")
                          /\ ~IsIdentifier(Suffix(id), "ccs1"))
                => r.res = "ok" /\ r.host = Suffix(id)
            /\ (OneAt(id) /\ (IsIdentifier(Suffix(id), "con1") \/ IsIdentifier(Suffix(id), "ccs1")))
                => /\ r.lookup.on = defaultHost
                   /\ r.lookup.kind =
                        (IF IsIdentifier(Suffix(id), "con1") THEN "entity" ELSE "domain")
                   /\ IF r.answer.kind = "record" /\ r.answer.field # EmptyStr
                      THEN r.res = "ok" /\ r.host = r.answer.field
                      ELSE r.res # "ok"

\* A CCID suffix resolved to the domain of the entity, and a CSID suffix whose
\* domain record has no fqdn.
C15_Witness ==
    \E c, d \in ResolveCalls :
        /\ resolving[c].pc = "done"
        /\ resolving[c].timeline = <<TimelineName, At>> \o CCIDStr
        /\ resolving[c].lookup = [kind |-> "entity", on |-> defaultHost]
        /\ resolving[c].res = "ok"
        /\ resolving[c].host = RemoteHostStr
        /\ resolving[d].pc = "done"
        /\ resolving[d].timeline = <<TimelineName, At>> \o CSIDStr
        /\ resolving[d].res = "domain not found"

\* An entry that exists and is younger than its TTL: opts.TTL (or the default)
\* for a value, negativeCacheTTL for null.
FreshEntry(e, ttl, t) ==
    /\ e.present
    /\ t - e.timestamp < (IF e.data # Null THEN ttl ELSE negativeCacheTTL)

\* C16: a fetchWithCache call with cache 'force-cache' leaves the cache, the
\* in-flight map and the requests as they are, from its start to its end; it
\* ends right after the lookup, with the data of the entry when the entry is
\* fresh and with the cache-miss error when there is none or it is too old.
C16_ForceCacheOnlyReads ==
    [][ \A c \in Calls :
          /\ (calls'[c] # calls[c] /\ calls'[c].pc = "cacheGet"
                /\ calls'[c].opt = "force-cache")
             => /\ cache' = cache
                /\ inFlightRequests' = inFlightRequests
                /\ reqs' = reqs
          /\ (calls[c].pc = "cacheGet" /\ calls[c].opt = "force-cache"
                /\ calls'[c] # calls[c])
             => /\ cache' = cache
                /\ inFlightRequests' = inFlightRequests
                /\ reqs' = reqs
                /\ calls'[c].pc = "done"
                /\ IF FreshEntry(calls[c].entry, calls[c].ttl, now)
                   THEN /\ calls'[c].val = calls[c].entry.data
                        /\ calls'[c].res = (IF calls[c].entry.data # Null THEN "ok" ELSE "null")
                   ELSE calls'[c].res = "CacheMiss"
      ]_vars

\* A force-cache call has failed on an entry that is older than its TTL and
\* still there.
C16_Witness ==
    /\ calls[1].pc = "done"
    /\ calls[1].res = "CacheMiss"
    /\ cache[EntityKey("e1")].present
    /\ cache[EntityKey("e1")].data # Null
    /\ cache[EntityKey("e1")].timestamp = 0
    /\ now >= 500
    /\ inFlightRequests[EntityKey("e1")] = NoCall

\* The responses C17 names.
Unreachable(r) ==
    \/ r.status = 502 \/ r.status = 503 \/ r.status = 504
    \/ r.status = 0 /\ (r.code = "ENOTFOUND" \/ r.code = "ECONNREFUSED")

\* C17: in fetchWithCache, fetchWithCredential and fetchWithCredentialBlob a
\* 502, 503 or 504 response and an ENOTFOUND or ECONNREFUSED failure call
\* markHostOffline, which writes the failCount it found plus one, and the
\* request fails with DomainOfflineError; a 2xx response removes the entry.
C17_UnreachableMarksOffline ==
    [][ \A c \in Calls :
          LET key == OfflineKey(calls[c].host)
          IN  /\ (response' # response /\ response'.call = c /\ Unreachable(response'))
                 => reqs'[c].pc = "markHostOffline"
              /\ (response' # response /\ response'.call = c
                    /\ response'.status >= 200 /\ response'.status <= 299)
                 => ~cache'[key].present
              /\ (reqs[c].pc = "markHostOffline" /\ reqs'[c].pc # "markHostOffline")
                 => /\ cache'[key].present
                    /\ cache'[key].data = (IF cache[key].present THEN cache[key].data ELSE 0) + 1
                    /\ IF calls[c].kind = "cache"
                       THEN reqs'[c].outcome = "DomainOffline"
                       ELSE calls'[c].pc = "done" /\ calls'[c].res = "DomainOffline"
      ]_vars

\* A blob request has failed with ECONNREFUSED on a host that had failed
\* once before: failCount is 2.
C17_Witness ==
    /\ response.call = 1
    /\ response.code = "ECONNREFUSED"
    /\ calls[1].kind = "blob"
    /\ calls[1].pc = "done"
    /\ calls[1].res = "DomainOffline"
    /\ cache[OfflineKey(defaultHost)].present
    /\ cache[OfflineKey(defaultHost)].data = 2

\* C18: whenever no markHostOffline is under way, the failCount stored under
\* offline:<host> is the number of requests that failed on the unreachable
\* host since the last success (no entry: none).
C18_FailCountCountsFailures ==
    (\A c \in Calls : reqs[c].pc # "markHostOffline")
        => MarkHostOfflineGet(cache, defaultHost) = failedSince

\* C19: no request goes to a host that is inside its back-off window: neither
\* the POST of commit nor the passport GET of getPassport.
C19_NoRequestInsideBackoff ==
    /\ (posted.sent /\ posted.host = defaultHost)
        => ~InBackoffWindow(cache[OfflineKey(defaultHost)], now)
    /\ (PassportRequests # {} /\ provider.host = defaultHost)
        => ~InBackoffWindow(cache[OfflineKey(defaultHost)], now)

\* C20: a commit call whose request has gone out settles, whether or not the
\* host ever answers.
C20_CommitSettles ==
    \A c \in CommitCalls :
        (commits[c].pc = "fetch") ~> (commits[c].pc \in {"done", "failed"})

\* C21: under a Guest provider a write helper that has failed with the
\* not-implemented error has sent no request and left the cache as it was.
C21_GuestWritesTouchNothing ==
    (provider.kind = "guest" /\ write.res = "NotImplemented")
        => /\ cache = [k \in Keys |-> NoEntry]
           /\ \A c \in Calls : reqs[c].pc = "none"

\* C22: every token in the tokens map is for the remote host it is stored
\* under and has sub "concrnt"; under a sub-key provider its iss and its
\* keyID are the provider's CKID, under a master-key provider its iss is
\* the provider's CCID.
C22_TokenClaims ==
    \A d \in TokenDomains :
        tokens[d] # NoToken =>
            /\ tokens[d].aud = d
            /\ tokens[d].sub = "concrnt"
            /\ provider.kind = "sub" => /\ tokens[d].iss = provider.ckid
                                        /\ tokens[d].keyID = provider.ckid
            /\ provider.kind = "master" => tokens[d].iss = provider.ccid

\* C23: an entry of the in-flight map is removed only when the request it
\* refers to has settled: whenever the entry of a key goes away, the request
\* it referred to is no longer running.
C23_EntryOutlivesItsRequest ==
    [][\A k \in CacheKeys :
        (inFlightRequests[k] # NoCall /\ inFlightRequests'[k] = NoCall)
            => reqs'[inFlightRequests[k]].pc = "none"]_vars

\* C24: a listen call hands a listen frame to the socket exactly when one of
\* its timelines was not yet a key of subscriptions, an unlisten call hands
\* an unlisten frame to it exactly when a key was dropped; the channels of
\* the frame are the keys of subscriptions after the call, and a call that
\* changes no key sends nothing.
C24_FrameExactlyOnKeyChange ==
    /\ lastCall.op = "listen" =>
          /\ (lastCall.frame # NoFrame)
                <=> (\E t \in lastCall.timelines : t \notin DOMAIN lastCall.before)
          /\ lastCall.frame # NoFrame => lastCall.frame = ListenFrame(DOMAIN subscriptions)
    /\ lastCall.op = "unlisten" =>
          /\ (lastCall.frame # NoFrame)
                <=> (DOMAIN lastCall.before \ DOMAIN subscriptions # {})
          /\ lastCall.frame # NoFrame => lastCall.frame = UnlistenFrame(DOMAIN subscriptions)
    /\ DOMAIN subscriptions = DOMAIN lastCall.before => lastCall.frame = NoFrame

\* An unlisten call on both timelines dropped one key of two and left the
\* other with a callback: its frame went out on the open connection.
C24_Witness ==
    /\ lastCall.op = "unlisten"
    /\ lastCall.timelines = {"t1", "t2"}
    /\ DOMAIN lastCall.before = {"t1", "t2"}
    /\ lastCall.frame = UnlistenFrame({"t2"})
    /\ conns[ws] = "OPEN"
    /\ sent.last = lastCall.frame

\* C25 as stated: unlisten(T, cb) right after listen(T, cb) leaves the
\* subscriptions listen(T, cb) found.
C25_UnlistenRestores ==
    lastCall.undoes => subscriptions = lastCall.prior

\* C25: no key of subscriptions maps to an empty set, and unlisten(T, cb)
\* right after listen(T, cb) leaves the subscriptions the listen call found
\* when the callback was on none of the timelines of T before the listen call.
C25_UnlistenRestoresNewCallback ==
    /\ \A t \in DOMAIN subscriptions : subscriptions[t] # {}
    /\ ( /\ lastCall.undoes
         /\ \A t \in lastCall.timelines \cap DOMAIN lastCall.prior :
                lastCall.callback \notin lastCall.prior[t] )
       => subscriptions = lastCall.prior

\* listen on both timelines with a new callback found one of them
\* subscribed by another callback; the unlisten that followed restored that.
C25_Witness ==
    /\ lastCall.undoes
    /\ lastCall.timelines = {"t1", "t2"}
    /\ lastCall.callback = "cb1"
    /\ lastCall.prior = [t \in {"t1"} |-> {"cb2"}]
    /\ subscriptions = lastCall.prior

\* C28: a heartbeat tick puts the heartbeat frame on the wire only when the
\* connection the socket holds is open; in every other state it sends
\* nothing and raises no error.
C28_HeartbeatOnlyWhenOpen ==
    lastBeat.state # "none" =>
        /\ lastBeat.out # NoFrame => (lastBeat.state = "OPEN" /\ lastBeat.out = HeartbeatFrame)
        /\ lastBeat.state # "OPEN" => (lastBeat.out = NoFrame /\ ~lastBeat.threw)

\* C26: a frame whose handler runs to its end without waiting for the cache
\* is handed to the listeners of its timeline in that step, whatever its
\* document type and with or without a resource (every timeline has
\* listeners here, so every frame has somebody to go to).
C26_EveryFrameDispatched ==
    [][( /\ DOMAIN subscriptions = Timelines
         /\ frames' = frames + 1
         /\ handlers' = handlers )
       => ( /\ Len(delivered') = Len(delivered) + 1
            /\ delivered'[Len(delivered')].seq = frames' )]_vars

\* what a waitOpen call may look like at any moment: the timer runs exactly
\* while the promise is pending, callbacks come every 200 ms, the promise
\* resolves at one of the first 10 callbacks and that callback read OPEN,
\* no earlier callback did, and it rejects at the callback after the 10th
WaitOpenContract ==
    /\ waiting.interval <=> waiting.promise = "pending"
    /\ waiting.elapsed = 200 * waiting.polls
    /\ waiting.promise = "pending" => (waiting.polls <= 10 /\ (waiting.polls > 0 => ~waiting.open))
    /\ waiting.promise = "resolved" => (waiting.open /\ waiting.polls \in 1..10)
    /\ waiting.promise = "rejected" => waiting.polls = 11

\* C27: waitOpen always settles; it polls every 200 ms, resolves at the first
\* of at most 10 polls that sees the socket open, rejects once 10 polls have
\* passed without that, never resolves on a poll that did not see the socket
\* open, and stops its timer when it settles.
C27_WaitOpenSettles ==
    /\ []WaitOpenContract
    /\ (waiting.promise = "pending") ~> (waiting.promise \in {"resolved", "rejected"})

\* A call resolved at its 10th poll, on a connection made by reconnect().
C27_Witness ==
    /\ waiting.promise = "resolved"
    /\ waiting.polls = 10
    /\ Len(conns) >= 2
    /\ ~waiting.interval

\* C29 as stated: a 'best-effort' call that finds a negative entry younger
\* than negativeCacheTTL has returned null in that step, without waiting.
C29_ReturnsNullAtOnce ==
    \A c \in Calls :
        calls[c].negHit => (calls[c].pc = "done" /\ calls[c].res = "null")

\* C29: a 'best-effort' call that finds a negative entry younger than
\* negativeCacheTTL does not end on the entry: it goes through fetchNetwork
\* and waits; it ends at the liveness gate or with the outcome of a request,
\* never as a stale-while-revalidate return.
C29_BestEffortWaitsForNetwork ==
    \A c \in Calls :
        calls[c].negHit =>
            /\ ~calls[c].swr
            /\ calls[c].pc \in {"isHostOnline", "getHeaders", "await", "done"}
            /\ calls[c].pc = "done" => calls[c].via \in {"gate", "request"}

\* Such a call got a value from the request it waited for, and the value
\* has replaced the negative entry.
C29_Witness ==
    /\ calls[1].negHit
    /\ calls[1].pc = "done"
    /\ calls[1].res = "ok"
    /\ calls[1].via = "request"
    /\ cache[calls[1].key].present /\ cache[calls[1].key].data = calls[1].val

\* C30: when a fetchWithCache request ends with a value, the value is in the
\* cache under the key, stamped now, unless the call is 'negative-only', and
\* then the entry of the key is what it was; when a request ends on a 404,
\* the entry of the key is the negative entry stamped now, whatever the option.
C30_WritesOnSuccessAnd404 ==
    [][\A c \in Calls :
        LET k == calls[c].key
        IN  /\ ( /\ calls[c].kind = "cache"
                 /\ reqs[c].pc = "json" /\ reqs[c].app = "ok"
                 /\ reqs'[c].pc # "json" )
               => IF calls[c].opt = "negative-only"
                  THEN cache'[k] = cache[k]
                  ELSE cache'[k] = [present |-> TRUE, data |-> reqs[c].content,
                                    timestamp |-> now]
            /\ ( /\ calls[c].kind = "cache"
                 /\ reqs[c].pc = "pending"
                 /\ reqs'[c].pc = "finally" /\ reqs'[c].outcome = "null" )
               => cache'[k] = [present |-> TRUE, data |-> Null, timestamp |-> now]]_vars

\* The request of a 'no-cache' call has ended with a value, and the value
\* is in the cache under the key of the call.
C30_Witness ==
    /\ calls[1].opt = "no-cache"
    /\ reqs[1].pc = "finally" /\ reqs[1].outcome = "ok"
    /\ reqs[1].val = 2
    /\ cache[calls[1].key] = [present |-> TRUE, data |-> 2, timestamp |-> now]
    /\ now > 0

\* C31: when upsertProfile completes, profile:<returned id> has no entry.
C31_KeyGoneWhenHelperReturns ==
    [][(upsert.pc = "applied" /\ upsert'.pc = "settled")
        => ~cache'[ProfileKey("p1")].present]_vars

\* C32: a fetchWithCache call that waits for a request and resolves with a
\* value has had its expressGetter invoked.  A waiting call found no value
\* in the cache, so its getter was not invoked at the cache read; the
\* handler of a request invokes the getter of the call that issued it, so
\* the call must be that one.
C32_GetterInvokedBeforeResolve ==
    [][\A d \in Calls :
        ( /\ calls[d].kind = "cache"
          /\ calls[d].pc = "await" /\ ~calls[d].swr
          /\ calls'[d].pc = "done" /\ calls'[d].res = "ok" )
        => calls[d].waitOn = d]_vars

\* C33 as stated: from failCount 15 on the window is about 7 minutes: a host
\* whose entry is younger than 6 minutes is still offline.
C33_WindowAboutSevenMinutes ==
    (probe.pc = "done" /\ probe.entry.present /\ probe.entry.data >= 15
        /\ now - probe.entry.timestamp < 360000)
    => probe.answer = FALSE

\* C33: from failCount 15 on the window no longer grows: it is
\* 500 ms * 1.5^15 = 218 946.9 ms (about 3.6 minutes) for every failCount of
\* 15 or more: the host is offline up to an age of 218 946 ms and online from
\* 218 947 ms on.
C33_WindowCappedAt219s ==
    (probe.pc = "done" /\ probe.entry.present /\ probe.entry.data >= 15)
    => (probe.answer = FALSE <=> now - probe.entry.timestamp < 218947)

\* isHostOnline has answered true for failCount 17 in the first millisecond
\* after the longest window.
C33_Witness ==
    /\ probe.pc = "done" /\ probe.answer = TRUE
    /\ probe.entry.present /\ probe.entry.data = 17
    /\ now - probe.entry.timestamp = 218947

\* C34: the bearer token of every commit is minted for the host the request
\* goes to: the aud claim of the token in the authorization header equals the
\* host of the request URL, also when the host argument is omitted and the
\* request goes to the default host.
C34_TokenForRequestHost ==
    posted.sent => posted.headers.authorization.aud = posted.host

\* C35: a Socket has at most one live connection at any time: of the
\* connections it has created, at most one is connecting or open (no
\* connection is ever stripped of its handlers, so every live one has its
\* message and open handlers attached).
C35_OneLiveConnection ==
    Cardinality({i \in 1..Len(conns) : conns[i] \in {"CONNECTING", "OPEN"}}) <= 1

\* C36: after dispose() the callback the reader registered with Socket.listen
\* is in no listener set of subscriptions, an id that only this reader
\* listened to is no key of subscriptions, and no later socket event has
\* called the reader's processEvent.
C36_DisposeDetaches ==
    reader.disposed =>
        /\ \A t \in DOMAIN subscriptions :
                /\ subscriptions[t] \cap ReaderCallbacks = {}
                /\ subscriptions[t] # {}
        /\ ~reader.late

C38_NoWriteByEarlierRequest ==
    [][(/\ upsert.pc = "settled"
        /\ ~KvsGet(cache, ProfileKey("p1")).present
        /\ KvsGet(cache', ProfileKey("p1")).present)
       => \E c \in upsert.late : reqs'[c] # reqs[c]]_vars

\* The responses C39 names: 403, 404, another non-2xx status outside
\* 502/503/504, and a rejected fetch whose cause is neither ENOTFOUND nor
\* ECONNREFUSED (a timeout abort).
LeavesLivenessAlone(r) ==
    \/ r.status = 403 \/ r.status = 404
    \/ (r.status >= 300 /\ r.status # 502 /\ r.status # 503 /\ r.status # 504)
    \/ (r.status = 0 /\ r.code # "ENOTFOUND" /\ r.code # "ECONNREFUSED")

\* C39: such a response leaves the liveness entry of every host as it was: no
\* markHostOffline is started for the request, and the entry offline:<host>
\* is neither written nor removed.
C39_OtherFailuresLeaveEntry ==
    [][(response' # response /\ LeavesLivenessAlone(response'))
        => /\ \A h \in Hosts : cache'[OfflineKey(h)] = cache[OfflineKey(h)]
           /\ reqs'[response'.call].pc # "markHostOffline"]_vars

\* A request to a host that had failed once has been aborted by its timeout:
\* the entry is the one the response found, with failCount 1.
C39_Witness ==
    /\ response.status = 0 /\ response.code = "ABORT"
    /\ calls[response.call].res = "Error"
    /\ calls[response.call].pc = "done"
    /\ cache[OfflineKey(defaultHost)].present
    /\ cache[OfflineKey(defaultHost)].data = 1
    /\ response.found = cache[OfflineKey(defaultHost)]

\* Request r is the background revalidation of a call that has returned the
\* stale value it found.
Revalidates(r) ==
    /\ calls[r].kind = "cache" /\ calls[r].swr
    /\ calls[r].pc = "await" /\ calls[r].waitOn = r

====
